---- MODULE Spec2Model ----
(***************************************************************************)
(* Model of ip_reputation_gui.py: the IP extractor (extract_ips), the      *)
(* background query worker (ApiThread) and the foreground handlers of      *)
(* IPReputationApp that aggregate, display and filter the results.         *)
(*                                                                         *)
(* Text is modelled as a sequence of one-character strings, so that the    *)
(* regular expression scan, split, strip, join and substring tests of the  *)
(* source are computed on characters as the source computes them.          *)
(***************************************************************************)
EXTENDS Integers, Sequences, FiniteSets, TLC

\* ------------------------------------------------------------------ bounds

\* Most pieces of text typed into the IP input field before extraction.
MaxTokens == 3

\* Most notices waiting for the foreground thread at one time.
MaxPending == 2

\* The daily query counter is not raised beyond this.
MaxDaily == 2

\* Most tokens of the text in the input field when the user presses query.
MaxBatch == 2

\* add_result is called directly only while the table, with the rows the
\* running job may still add, has fewer rows.
MaxRows == 2

\* ------------------------------------------------------------- characters

Digits == {"0", "1", "2", "3", "4", "5", "6", "7", "8", "9"}

DigitVal(c) ==
    CASE c = "0" -> 0 [] c = "1" -> 1 [] c = "2" -> 2 [] c = "3" -> 3
      [] c = "4" -> 4 [] c = "5" -> 5 [] c = "6" -> 6 [] c = "7" -> 7
      [] c = "8" -> 8 [] c = "9" -> 9

Letters == {"d", "e", "f", "g", "h", "i", "l", "m", "n", "o", "u", "w", "x"}

\* \w of Python's re for the characters of the model: letters, digits, "_".
IsWordChar(c) == c \in Digits \/ c \in Letters \/ c = "_"

\* str.strip() whitespace among the characters of the model.
IsSpace(c) == c \in {" ", "\n"}

\* ---------------------------------------------------------- str helpers

RECURSIVE Concat(_)
\* The concatenation of a sequence of texts.
Concat(parts) ==
    IF parts = <<>> THEN <<>> ELSE Head(parts) \o Concat(Tail(parts))

RECURSIVE Join(_, _)
\* sep.join(parts)
Join(sep, parts) ==
    IF parts = <<>> THEN <<>>
    ELSE IF Len(parts) = 1 THEN parts[1]
    ELSE parts[1] \o sep \o Join(sep, Tail(parts))

RECURSIVE SplitFrom(_, _, _)
\* s.split(sep) for a one-character sep: cur is the piece being collected.
SplitFrom(s, sep, cur) ==
    IF s = <<>> THEN <<cur>>
    ELSE IF Head(s) = sep THEN <<cur>> \o SplitFrom(Tail(s), sep, <<>>)
    ELSE SplitFrom(Tail(s), sep, Append(cur, Head(s)))

Split(s, sep) == SplitFrom(s, sep, <<>>)

RECURSIVE LStrip(_)
LStrip(s) == IF s # <<>> /\ IsSpace(Head(s)) THEN LStrip(Tail(s)) ELSE s

RECURSIVE RStrip(_)
RStrip(s) ==
    IF s # <<>> /\ IsSpace(s[Len(s)]) THEN RStrip(SubSeq(s, 1, Len(s) - 1)) ELSE s

\* str.strip that takes the blanks of the right end alone.
StripRight(s) == RStrip(s)

\* s.strip()
Strip(s) == RStrip(LStrip(s))

\* sub in s (substring test)
Contains(sub, s) ==
    \E i \in 1..(Len(s) - Len(sub) + 1) : SubSeq(s, i, i + Len(sub) - 1) = sub

RECURSIVE Dedup(_, _)
\* list(dict.fromkeys(items)): the first occurrence of each item, in order.
Dedup(items, seen) ==
    IF items = <<>> THEN <<>>
    ELSE IF Head(items) \in seen THEN Dedup(Tail(items), seen)
    ELSE <<Head(items)>> \o Dedup(Tail(items), seen \cup {Head(items)})

Range(s) == {s[i] : i \in DOMAIN s}

\* ------------------------------------------------- the regular expression

\* \b at the gap before text[i] (i = Len(text) + 1 is the end of the text).
Boundary(text, i) ==
    LET left  == i > 1 /\ IsWordChar(text[i - 1])
        right == i <= Len(text) /\ IsWordChar(text[i])
    IN  left # right

RECURSIVE DigitRun(_, _)
\* The number of digits that start at text[i].
DigitRun(text, i) ==
    IF i <= Len(text) /\ text[i] \in Digits THEN 1 + DigitRun(text, i + 1) ELSE 0

\* \d{1,3}\. at i: the index after the dot, or 0 when it does not match.
\* The digits must be followed by a dot, so the group takes the whole run.
GroupAt(text, i) ==
    LET n == DigitRun(text, i)
    IN  IF n >= 1 /\ n <= 3 /\ i + n <= Len(text) /\ text[i + n] = "."
        THEN i + n + 1 ELSE 0

\* \b(?:\d{1,3}\.){3}\d{1,3}\b at i: the index after the match, or 0.
MatchAt(text, i) ==
    IF ~Boundary(text, i) THEN 0
    ELSE LET g1 == GroupAt(text, i)
             g2 == IF g1 = 0 THEN 0 ELSE GroupAt(text, g1)
             g3 == IF g2 = 0 THEN 0 ELSE GroupAt(text, g2)
             n  == IF g3 = 0 THEN 0 ELSE DigitRun(text, g3)
         IN  IF g3 # 0 /\ n >= 1 /\ n <= 3 /\ Boundary(text, g3 + n)
             THEN g3 + n ELSE 0

RECURSIVE FindAllFrom(_, _)
\* re.findall(ip_pattern, text): the non-overlapping matches, left to right.
FindAllFrom(text, i) ==
    IF i > Len(text) THEN <<>>
    ELSE LET e == MatchAt(text, i)
         IN  IF e = 0 THEN FindAllFrom(text, i + 1)
             ELSE <<SubSeq(text, i, e - 1)>> \o FindAllFrom(text, e)

FindAll(text) == FindAllFrom(text, 1)

\* ------------------------------------------------------------ ipaddress

RECURSIVE DecimalValue(_, _)
DecimalValue(s, acc) ==
    IF s = <<>> THEN acc ELSE DecimalValue(Tail(s), 10 * acc + DigitVal(Head(s)))

\* IPv4Address._parse_octet: the octet's value, or -1 for ValueError.
ParseOctet(s) ==
    IF s = <<>> THEN -1
    ELSE IF \E i \in DOMAIN s : s[i] \notin Digits THEN -1
    ELSE IF Len(s) > 3 THEN -1
    ELSE IF s # <<"0">> /\ s[1] = "0" THEN -1
    ELSE IF DecimalValue(s, 0) > 255 THEN -1
    ELSE DecimalValue(s, 0)

\* ipaddress.ip_address(ip): the four octets, or <<>> for ValueError (a text
\* with no colon is no IPv6 address either).
ParseIPv4(ip) ==
    LET octets == Split(ip, ".")
    IN  IF ip = <<>> \/ Len(octets) # 4 THEN <<>>
        ELSE LET vals == [k \in 1..4 |-> ParseOctet(octets[k])]
             IN  IF \E k \in 1..4 : vals[k] < 0 THEN <<>> ELSE vals

RECURSIVE Pow2(_)
Pow2(n) == IF n = 0 THEN 1 ELSE 2 * Pow2(n - 1)

\* addr in IPv4Network(net/len): the leading len bits agree.  The 32 bits
\* are compared as two 16-bit halves.
InNetwork(addr, net, len) ==
    LET ahi == addr[1] * 256 + addr[2]
        alo == addr[3] * 256 + addr[4]
        nhi == net[1] * 256 + net[2]
        nlo == net[3] * 256 + net[4]
    IN  IF len <= 16
        THEN (ahi \div Pow2(16 - len)) = (nhi \div Pow2(16 - len))
        ELSE ahi = nhi /\ (alo \div Pow2(32 - len)) = (nlo \div Pow2(32 - len))

\* IPv4Address._constants._private_networks
PrivateNetworks ==
    { <<<<0, 0, 0, 0>>, 8>>,        <<<<10, 0, 0, 0>>, 8>>,
      <<<<127, 0, 0, 0>>, 8>>,      <<<<169, 254, 0, 0>>, 16>>,
      <<<<172, 16, 0, 0>>, 12>>,    <<<<192, 0, 0, 0>>, 29>>,
      <<<<192, 0, 0, 170>>, 31>>,   <<<<192, 0, 2, 0>>, 24>>,
      <<<<192, 168, 0, 0>>, 16>>,   <<<<198, 18, 0, 0>>, 15>>,
      <<<<198, 51, 100, 0>>, 24>>,  <<<<203, 0, 113, 0>>, 24>>,
      <<<<240, 0, 0, 0>>, 4>>,      <<<<255, 255, 255, 255>>, 32>> }

is_private(addr)   == \E n \in PrivateNetworks : InNetwork(addr, n[1], n[2])
is_multicast(addr) == InNetwork(addr, <<224, 0, 0, 0>>, 4)
is_loopback(addr)  == InNetwork(addr, <<127, 0, 0, 0>>, 8)
is_reserved(addr)  == InNetwork(addr, <<240, 0, 0, 0>>, 4)

\* IsValidPublic with the multicast test left out.
IsValidPublicNoMulticast(ip) ==
    LET addr == ParseIPv4(ip)
    IN  /\ addr # <<>>
        /\ ~is_private(addr)
        /\ ~is_loopback(addr)
        /\ ~is_reserved(addr)

\* The test of extract_ips on one candidate: it parses, and is none of
\* private, multicast, loopback, reserved.
IsValidPublic(ip) ==
    LET addr == ParseIPv4(ip)
    IN  /\ addr # <<>>
        /\ ~is_private(addr)
        /\ ~is_multicast(addr)
        /\ ~is_loopback(addr)
        /\ ~is_reserved(addr)

RECURSIVE FilterValid(_)
FilterValid(ips) ==
    IF ips = <<>> THEN <<>>
    ELSE IF IsValidPublic(Head(ips)) THEN <<Head(ips)>> \o FilterValid(Tail(ips))
    ELSE FilterValid(Tail(ips))

extract_ips(text) == Dedup(FilterValid(FindAll(text)), {})


\* ------------------------------------------------------------ the data

\* Texts of the model, as sequences of characters.  A CJK character is
\* written as one symbol named by its code point: "u662F" is U+662F.
HIGH   == <<"h", "i", "g", "h">>
MEDIUM == <<"m", "e", "d", "i", "u", "m">>
LOW    == <<"l", "o", "w">>
INFO   == <<"i", "n", "f", "o">>
YES    == <<"u662F">>
NO     == <<"u5426">>
CHINA  == <<"u4E2D", "u56FD">>
ANHUI  == <<"u5B89", "u5FBD">>
HEFEI  == <<"u5408", "u80A5">>
USA    == <<"u7F8E", "u56FD">>
TELECOM == <<"u7535", "u4FE1">>
UNICOM  == <<"u8054", "u901A">>
TagScanner == <<"x", "e">>
TagSpam    == <<"m", "l">>

\* The code point of each character: QString compares by code unit.
CharCode(c) ==
    CASE c = "\n" -> 10 [] c = " " -> 32 [] c = "," -> 44 [] c = "." -> 46
      [] c = "0" -> 48 [] c = "1" -> 49 [] c = "2" -> 50 [] c = "3" -> 51
      [] c = "4" -> 52 [] c = "5" -> 53 [] c = "6" -> 54 [] c = "7" -> 55
      [] c = "8" -> 56 [] c = "9" -> 57 [] c = "_" -> 95
      [] c = "d" -> 100 [] c = "e" -> 101 [] c = "f" -> 102 [] c = "g" -> 103
      [] c = "h" -> 104 [] c = "i" -> 105 [] c = "l" -> 108 [] c = "m" -> 109
      [] c = "n" -> 110 [] c = "o" -> 111 [] c = "u" -> 117 [] c = "w" -> 119
      [] c = "x" -> 120
      [] c = "u4E2D" -> 20013 [] c = "u4F4E" -> 20302 [] c = "u4FE1" -> 20449
      [] c = "u5426" -> 21542 [] c = "u5408" -> 21512 [] c = "u56FD" -> 22269
      [] c = "u5B89" -> 23433 [] c = "u5FBD" -> 24509 [] c = "u65E0" -> 26080
      [] c = "u662F" -> 26159 [] c = "u7535" -> 30005 [] c = "u7F8E" -> 32654
      [] c = "u8054" -> 32852 [] c = "u80A5" -> 32933 [] c = "u80C1" -> 32961
      [] c = "u5371" -> 21361 [] c = "u4E25" -> 20005 [] c = "u91CD" -> 37325
      [] c = "u901A" -> 36890 [] c = "u9AD8" -> 39640

\* The IP addresses of the model.
IpA == <<"1", ".", "1", ".", "1", ".", "1">>
IpB == <<"8", ".", "8", ".", "8", ".", "8">>
IpPrivate == <<"1", "0", ".", "0", ".", "0", ".", "1">>

\* What the user may put into the input field before a query, one per token.
QueryTokens == {IpA, IpB, IpPrivate}

\* The public addresses among them.
QueryIps == {IpA, IpB}

\* The pieces of text the user may type before extraction: addresses of each
\* kind followed by a separator, a letter and a digit that run into what
\* follows them.
Pieces ==
    { <<"8", ".", "8", ".", "8", ".", "8", " ">>,
      <<"1", ".", "1", ".", "1", ".", "1", ",">>,
      <<"1", "0", ".", "0", ".", "0", ".", "1", " ">>,
      <<"1", "2", "7", ".", "0", ".", "0", ".", "1", "\n">>,
      <<"2", "2", "4", ".", "0", ".", "0", ".", "1", " ">>,
      <<"2", "4", "0", ".", "0", ".", "0", ".", "1", ",">>,
      <<"2", "5", "6", ".", "1", ".", "1", ".", "1", " ">>,
      <<"0", "1", ".", "1", ".", "1", ".", "1", " ">>,
      <<"x">>,
      <<"9">> }

\* The per-IP payloads the remote API may return (data[ip] of the response).
\* A field the source reads with a default (data.get) holds that default when
\* the API leaves it out.
PayloadMalHigh ==
    [is_malicious |-> TRUE, confidence_level |-> HIGH, severity |-> HIGH,
     country |-> CHINA, province |-> ANHUI, city |-> HEFEI,
     carrier |-> TELECOM, judgments |-> <<TagScanner, TagSpam>>]

PayloadSafeHigh ==
    [is_malicious |-> FALSE, confidence_level |-> HIGH, severity |-> INFO,
     country |-> USA, province |-> <<>>, city |-> <<>>,
     carrier |-> UNICOM, judgments |-> <<>>]

PayloadMalLow ==
    [is_malicious |-> TRUE, confidence_level |-> LOW, severity |-> LOW,
     country |-> CHINA, province |-> <<>>, city |-> <<>>,
     carrier |-> TELECOM, judgments |-> <<TagSpam>>]

Payloads == {PayloadMalHigh, PayloadSafeHigh, PayloadMalLow}

\* A payload that is no JSON object (null): data.get raises on it.
NullPayload == [null |-> TRUE]

NoIp == <<>>


\* ------------------------------------------------ the overview table

\* The columns of overview_table: IP, malicious, confidence, severity,
\* location, carrier, judgments.
Columns == 0..6

\* A cell with no QTableWidgetItem: item(row, col) is None.
NoItem == [has |-> FALSE, text |-> <<>>, data |-> <<>>]

\* QTableWidgetItem(text), with its Qt.UserRole data (<<>>: none set).
Item(text, data) == [has |-> TRUE, text |-> text, data |-> data]

\* A row that setRowCount adds: no items, not hidden.
BlankRow == [cells |-> [c \in Columns |-> NoItem], hidden |-> FALSE]

RECURSIVE TextLess(_, _)
\* QString::compare(a, b) < 0: lexicographic by code point.
TextLess(a, b) ==
    IF b = <<>> THEN FALSE
    ELSE IF a = <<>> THEN TRUE
    ELSE IF CharCode(Head(a)) # CharCode(Head(b))
         THEN CharCode(Head(a)) < CharCode(Head(b))
    ELSE TextLess(Tail(a), Tail(b))

\* QTableModel::itemLessThan / itemGreaterThan, by the order of the sort.
ItemBefore(order, x, y) ==
    IF order = "asc" THEN TextLess(x.text, y.text) ELSE TextLess(y.text, x.text)

\* QTableWidget.setRowCount(n)
setRowCount(rows, n) ==
    IF n <= Len(rows) THEN SubSeq(rows, 1, n)
    ELSE rows \o [k \in 1..(n - Len(rows)) |-> BlankRow]

RECURSIVE ItemPrefix(_, _, _)
\* QTableModel::columnItems: the items of a column down to its first empty
\* cell (in a sorted column the empty cells are at the end).
ItemPrefix(rows, col, k) ==
    IF k > Len(rows) \/ ~rows[k].cells[col].has THEN <<>>
    ELSE <<rows[k].cells[col]>> \o ItemPrefix(rows, col, k + 1)

RECURSIVE LowerBound(_, _, _, _)
\* std::lower_bound: the number of leading items that sort before item.
LowerBound(items, order, item, k) ==
    IF k > Len(items) \/ ~ItemBefore(order, items[k], item) THEN k - 1
    ELSE LowerBound(items, order, item, k + 1)

RemoveAt(seq, k) == SubSeq(seq, 1, k - 1) \o SubSeq(seq, k + 1, Len(seq))

InsertAt(seq, k, e) == SubSeq(seq, 1, k - 1) \o <<e>> \o SubSeq(seq, k, Len(seq))

\* QTableWidget.setItem(row, col, item) of a table with sorting enabled
\* (setSortingEnabled(True)): the item is stored, and when col is the column
\* of the sort indicator the row is moved to its sorted position.  Rows are
\* numbered from 0, as in the source.
setItem(rows, sort, row, col, item) ==
    IF row + 1 > Len(rows) THEN rows
    ELSE LET stored == [rows EXCEPT ![row + 1].cells[col] = item]
         IN  IF sort.section # col THEN stored
             ELSE LET colItems  == ItemPrefix(stored, col, 1)
                      others    == IF row < Len(colItems)
                                   THEN RemoveAt(colItems, row + 1) ELSE colItems
                      sortedRow == LowerBound(others, sort.order, item, 1)
                  IN  IF sortedRow = row THEN stored
                      ELSE InsertAt(RemoveAt(stored, row + 1), sortedRow + 1,
                                    stored[row + 1])

RECURSIVE StableInsert(_, _, _, _)
\* One step of the stable sort: row goes after every row that does not sort
\* after it.
StableInsert(sorted, col, order, row) ==
    IF sorted = <<>> THEN <<row>>
    ELSE IF ItemBefore(order, row.cells[col], sorted[Len(sorted)].cells[col])
         THEN Append(StableInsert(SubSeq(sorted, 1, Len(sorted) - 1), col, order, row),
                     sorted[Len(sorted)])
    ELSE Append(sorted, row)

RECURSIVE StableSort(_, _, _)
StableSort(rows, col, order) ==
    IF rows = <<>> THEN <<>>
    ELSE StableInsert(StableSort(SubSeq(rows, 1, Len(rows) - 1), col, order),
                      col, order, rows[Len(rows)])

\* QTableWidget.sortItems(col, order): a stable sort of the rows that hold an
\* item in col, the rows that hold none after them in their order.  A row's
\* hidden state moves with the row.
sortItems(rows, col, order) ==
    StableSort(SelectSeq(rows, LAMBDA r : r.cells[col].has), col, order)
        \o SelectSeq(rows, LAMBDA r : ~r.cells[col].has)


\* ------------------------------------------------------------- the state

VARIABLES
    ip_input,            \* text of the IP input field
    last_extract,        \* history: pieces typed, and the text and result of process_ips
    thread,              \* self.api_thread: the ApiThread object and its run() position
    events,              \* notices emitted by the worker, not yet handled (FIFO)
    job,                 \* history of the current job: lookups issued, notices, stop
    current_results,     \* self.current_results["data"]: keys in insertion order, payloads
    table,               \* overview_table: its rows, top to bottom
    sort,                \* the header's sort indicator: section and order
    sort_combo,          \* sort_combo.currentIndex()
    sort_direction,      \* sort_direction.currentIndex()
    show_malicious_only, \* the checkbox
    query_enabled,       \* query_button.isEnabled()
    stop_enabled,        \* stop_button.isEnabled()
    export_enabled,      \* export_button.isEnabled()
    labels,              \* the statistics labels
    status,              \* the status bar message: its kind and the IP it names
    progress,            \* progress_label: the last (current, total) shown
    daily_query_count,   \* settings "daily_query_count"
    exported,            \* the file export_as_json wrote last, and the aggregate it wrote
    facet                \* history: the facet filter last applied and not reset, and
                         \* whether it put back on display a row an earlier one had hidden

inputVars  == <<ip_input, last_extract>>
workerVars == <<thread, events, job>>
viewVars   == <<table, sort, sort_combo, sort_direction, show_malicious_only, facet>>
appVars    == <<current_results, query_enabled, stop_enabled, export_enabled,
                labels, status, progress, daily_query_count>>
fileVars   == <<exported>>
vars == <<inputVars, workerVars, viewVars, appVars, fileVars>>

NoFacet == <<"none", <<>>, FALSE>>

\* A status bar message: its kind and the IP or the exception it names
\* (NoIp: none).
Status(kind, ip) == <<kind, ip>>

\* The statistics labels as a record of the numbers and names they show.
ZeroLabels ==
    [total |-> 0, malicious |-> 0, safe |-> 0,
     high |-> 0, medium |-> 0, low |-> 0,
     anhui |-> 0, china_other |-> 0, foreign |-> 0,
     carriers |-> <<>>, judgments |-> <<>>]

EmptyResults == [keys |-> <<>>, data |-> <<>>]

\* No ApiThread has been created yet (self.api_thread = None).
NoThread ==
    [exists |-> FALSE, ip_addresses |-> <<>>, stop_flag |-> FALSE, pos |-> 1,
     processed_ips |-> 0, pc |-> "done", ip |-> NoIp]

\* Nothing typed, nothing extracted.
NoExtract == [typed |-> 0, done |-> FALSE, text |-> <<>>, ips |-> <<>>]

\* No file has been written.
NoFile == [written |-> FALSE, text |-> <<>>, data |-> EmptyResults]

NoJob ==
    [lookups |-> <<>>, answers |-> <<>>, delivered |-> 0, limits |-> 0, merged |-> <<>>,
     stopped |-> FALSE, stop_delivered |-> 0, stop_lookups |-> 0, stop_pc |-> "done"]

Init ==
    /\ ip_input = <<>>
    /\ last_extract = NoExtract
    /\ thread = NoThread
    /\ events = <<>>
    /\ job = NoJob
    /\ current_results = EmptyResults
    /\ table = <<>>
    /\ sort = [section |-> 0, order |-> "desc"]
    /\ sort_combo = 0
    /\ sort_direction = 0
    /\ show_malicious_only = FALSE
    /\ query_enabled = TRUE
    /\ stop_enabled = FALSE
    /\ export_enabled = FALSE
    /\ labels = ZeroLabels
    /\ status = Status("ready", NoIp)
    /\ progress = <<0, 0>>
    /\ daily_query_count = 0
    /\ facet = NoFacet
    /\ exported = NoFile


\* ------------------------------------------------------- update_statistics

\* The rows counted by a scan: flags[k] tells whether row k counts.
CountRows(flags) == Cardinality({k \in DOMAIN flags : flags[k]})

\* The confidence tier update_statistics counts a row under ("": none).
ConfidenceTier(row) ==
    LET item == row.cells[2]
        confidence_text == item.text
        reversed == CASE confidence_text = <<"u4F4E">> -> LOW
                      [] confidence_text = <<"u4E2D">> -> MEDIUM
                      [] confidence_text = <<"u9AD8">> -> HIGH
                      [] OTHER -> confidence_text
        confidence == IF item.data # <<>> THEN item.data ELSE reversed
    IN  IF ~item.has THEN <<>>
        ELSE IF confidence \in {HIGH, MEDIUM, LOW} THEN confidence
        ELSE CASE confidence_text = <<"u9AD8">> -> HIGH
               [] confidence_text = <<"u4E2D">> -> MEDIUM
               [] confidence_text = <<"u4F4E">> -> LOW
               [] OTHER -> <<>>

InChina(location_text) ==
    Contains(CHINA, location_text) \/ Contains(<<"C", "h", "i", "n", "a">>, location_text)

InAnhui(location_text) ==
    Contains(ANHUI, location_text) \/ Contains(<<"A", "n", "h", "u", "i">>, location_text)

\* The geography bucket update_statistics counts a row under ("": none).
LocationBucket(row) ==
    LET item == row.cells[4]
    IN  IF ~item.has THEN "none"
        ELSE IF InChina(item.text)
             THEN (IF InAnhui(item.text) THEN "anhui" ELSE "china_other")
        ELSE IF item.text # <<>> THEN "foreign"
        ELSE "none"

RECURSIVE StripAll(_)
StripAll(parts) ==
    IF parts = <<>> THEN <<>> ELSE <<Strip(Head(parts))>> \o StripAll(Tail(parts))

\* [j.strip() for j in judgments_text.split(",")]
JudgmentList(judgments_text) == StripAll(Split(judgments_text, ","))

\* The carrier names a row adds to carrier_counts.
CarrierNames(row) ==
    IF row.cells[5].has /\ row.cells[5].text # <<>> THEN <<row.cells[5].text>> ELSE <<>>

\* The judgment tags a row adds to judgment_counts.
JudgmentNames(row) ==
    IF row.cells[6].has /\ row.cells[6].text # <<>>
    THEN SelectSeq(JudgmentList(row.cells[6].text), LAMBDA j : j # <<>>)
    ELSE <<>>

\* The names all rows add, in the order of the scan: names[k] are row k's.
NamesOfRows(names) == Concat(names)

\* The counts dictionary of a scan: each name with its count, in the order
\* the names were first seen.
CountNames(names) ==
    LET distinct == Dedup(names, {})
    IN  [k \in DOMAIN distinct |->
            <<distinct[k], Cardinality({i \in DOMAIN names : names[i] = distinct[k]})>>]

RECURSIVE InsertByCountFirst(_, _)
\* An entry goes before every entry whose count is not greater.
InsertByCountFirst(sorted, e) ==
    IF sorted = <<>> THEN <<e>>
    ELSE IF sorted[Len(sorted)][2] <= e[2]
         THEN Append(InsertByCountFirst(SubSeq(sorted, 1, Len(sorted) - 1), e),
                     sorted[Len(sorted)])
    ELSE Append(sorted, e)

RECURSIVE InsertByCount(_, _)
\* An entry goes after every entry whose count is not smaller (stable).
InsertByCount(sorted, e) ==
    IF sorted = <<>> THEN <<e>>
    ELSE IF sorted[Len(sorted)][2] < e[2]
         THEN Append(InsertByCount(SubSeq(sorted, 1, Len(sorted) - 1), e),
                     sorted[Len(sorted)])
    ELSE Append(sorted, e)

RECURSIVE SortByCount(_)
\* sorted(counts_dict.items(), key=lambda x: x[1], reverse=True)
SortByCount(entries) ==
    IF entries = <<>> THEN <<>>
    ELSE InsertByCount(SortByCount(SubSeq(entries, 1, Len(entries) - 1)),
                       entries[Len(entries)])

\* create_dynamic_labels: the five entries of highest count.
create_dynamic_labels(counts) ==
    LET sorted_items == SortByCount(counts)
    IN  SubSeq(sorted_items, 1, IF Len(sorted_items) < 5 THEN Len(sorted_items) ELSE 5)

\* update_statistics with the safe count taken from the rows that read "no"
\* instead of from the total.
update_statistics_safe_rows(results, rows) ==
    LET total_ips == Len(results.keys)
        malicious_ips ==
            CountRows([k \in DOMAIN rows |-> rows[k].cells[1].has /\ rows[k].cells[1].text = YES])
    IN  [total |-> total_ips,
         malicious |-> malicious_ips,
         safe |-> CountRows([k \in DOMAIN rows |->
                     rows[k].cells[1].has /\ rows[k].cells[1].text = NO]),
         high |-> CountRows([k \in DOMAIN rows |-> ConfidenceTier(rows[k]) = HIGH]),
         medium |-> CountRows([k \in DOMAIN rows |-> ConfidenceTier(rows[k]) = MEDIUM]),
         low |-> CountRows([k \in DOMAIN rows |-> ConfidenceTier(rows[k]) = LOW]),
         anhui |-> CountRows([k \in DOMAIN rows |-> LocationBucket(rows[k]) = "anhui"]),
         china_other |-> CountRows([k \in DOMAIN rows |-> LocationBucket(rows[k]) = "china_other"]),
         foreign |-> CountRows([k \in DOMAIN rows |-> LocationBucket(rows[k]) = "foreign"]),
         carriers |-> create_dynamic_labels(
                     CountNames(NamesOfRows([k \in DOMAIN rows |-> CarrierNames(rows[k])]))),
         judgments |-> create_dynamic_labels(
                     CountNames(NamesOfRows([k \in DOMAIN rows |-> JudgmentNames(rows[k])])))]

\* update_statistics: the labels computed from the aggregate and every row
\* of the table (hidden or not).
update_statistics(results, rows) ==
    LET total_ips == Len(results.keys)
        malicious_ips ==
            CountRows([k \in DOMAIN rows |-> rows[k].cells[1].has /\ rows[k].cells[1].text = YES])
    IN  [total |-> total_ips,
         malicious |-> malicious_ips,
         safe |-> total_ips - malicious_ips,
         high |-> CountRows([k \in DOMAIN rows |-> ConfidenceTier(rows[k]) = HIGH]),
         medium |-> CountRows([k \in DOMAIN rows |-> ConfidenceTier(rows[k]) = MEDIUM]),
         low |-> CountRows([k \in DOMAIN rows |-> ConfidenceTier(rows[k]) = LOW]),
         anhui |-> CountRows([k \in DOMAIN rows |-> LocationBucket(rows[k]) = "anhui"]),
         china_other |-> CountRows([k \in DOMAIN rows |-> LocationBucket(rows[k]) = "china_other"]),
         foreign |-> CountRows([k \in DOMAIN rows |-> LocationBucket(rows[k]) = "foreign"]),
         carriers |-> create_dynamic_labels(
                     CountNames(NamesOfRows([k \in DOMAIN rows |-> CarrierNames(rows[k])]))),
         judgments |-> create_dynamic_labels(
                     CountNames(NamesOfRows([k \in DOMAIN rows |-> JudgmentNames(rows[k])])))]

\* ------------------------------------------------------------- the filters

\* for row in range(rowCount()): setRowHidden(row, False)
ShowAllRows(rows) == [k \in DOMAIN rows |-> [rows[k] EXCEPT !.hidden = FALSE]]

\* The first loop of filter_table: with the box checked, a visible row whose
\* malicious item does not read "yes" is hidden; a row with no such item stays.
HideNotMalicious(rows, show_only_malicious) ==
    [k \in DOMAIN rows |->
        IF /\ ~rows[k].hidden
           /\ rows[k].cells[1].has
           /\ show_only_malicious
           /\ rows[k].cells[1].text # YES
        THEN [rows[k] EXCEPT !.hidden = TRUE]
        ELSE rows[k]]

\* reset_filter: every row shown, then filter_table when the box is checked.
reset_filter(rows, checked) ==
    IF checked THEN HideNotMalicious(ShowAllRows(rows), TRUE) ELSE ShowAllRows(rows)

\* filter_table: the rows after it.  Unchecked, it ends in reset_filter.
filter_table(rows, checked) ==
    IF checked THEN HideNotMalicious(rows, TRUE)
    ELSE reset_filter(HideNotMalicious(rows, FALSE), FALSE)

\* show_row of filter_by_category for one row.
show_row(row, category, value) ==
    CASE category = "is_malicious" ->
            row.cells[1].has /\ ((row.cells[1].text = YES) = value)
      [] category = "confidence" ->
            /\ row.cells[2].has
            /\ \/ value = HIGH /\ row.cells[2].text = <<"u9AD8">>
               \/ value = MEDIUM /\ row.cells[2].text = <<"u4E2D">>
               \/ value = LOW /\ row.cells[2].text = <<"u4F4E">>
               \/ row.cells[2].data = value
      [] category = "location" ->
            /\ row.cells[4].has
            /\ CASE value = "anhui" ->
                        InChina(row.cells[4].text) /\ InAnhui(row.cells[4].text)
                 [] value = "china_other" ->
                        InChina(row.cells[4].text) /\ ~InAnhui(row.cells[4].text)
                 [] value = "foreign" ->
                        row.cells[4].text # <<>> /\ ~InChina(row.cells[4].text)
                 [] OTHER -> FALSE
      [] category = "carrier" ->
            row.cells[5].has /\ row.cells[5].text = value
      [] category = "judgment" ->
            /\ row.cells[6].has
            /\ row.cells[6].text # <<>>
            /\ \E i \in DOMAIN JudgmentList(row.cells[6].text) :
                   JudgmentList(row.cells[6].text)[i] = value
      [] OTHER -> FALSE

\* filter_by_category that only hides: a row already hidden stays hidden.
filter_by_category_narrowing(rows, checked, category, value) ==
    LET unchecked == IF checked THEN filter_table(rows, FALSE) ELSE rows
    IN  [k \in DOMAIN unchecked |->
            [unchecked[k] EXCEPT
                !.hidden = @ \/ ~show_row(unchecked[k], category, value)]]

\* filter_by_category: the box is unchecked (which, when it was checked, runs
\* filter_table and shows every row), every row is shown, and each row is
\* hidden unless show_row.
filter_by_category(rows, checked, category, value) ==
    LET unchecked == IF checked THEN filter_table(rows, FALSE) ELSE rows
        shown     == ShowAllRows(unchecked)
    IN  [k \in DOMAIN shown |->
            [shown[k] EXCEPT !.hidden = ~show_row(shown[k], category, value)]]


\* ---------------------------------------------------------------- add_result

\* DictSet as a list of entries would do it: the key is appended each time.
DictSetAppend(results, ip, payload) ==
    [keys |-> Append(results.keys, ip),
     data |-> [k \in Range(results.keys) \cup {ip} |->
                  IF k = ip THEN payload ELSE results.data[k]]]

\* self.current_results["data"][ip] = payload: a new key goes last, a known
\* key keeps its place and takes the new payload.
DictSet(results, ip, payload) ==
    IF ip \in Range(results.keys)
    THEN [results EXCEPT !.data = [k \in Range(results.keys) |->
                                      IF k = ip THEN payload ELSE results.data[k]]]
    ELSE [keys |-> Append(results.keys, ip),
          data |-> [k \in Range(results.keys) \cup {ip} |->
                       IF k = ip THEN payload ELSE results.data[k]]]

\* confidence_map.get(confidence, confidence)
ConfidenceText(confidence) ==
    CASE confidence = LOW -> <<"u4F4E">>
      [] confidence = MEDIUM -> <<"u4E2D">>
      [] confidence = HIGH -> <<"u9AD8">>
      [] OTHER -> confidence

\* severity_map.get(severity, severity)
SeverityText(severity) ==
    CASE severity = <<"c", "r", "i", "t", "i", "c", "a", "l">> -> <<"u4E25", "u91CD">>
      [] severity = HIGH -> <<"u9AD8">>
      [] severity = MEDIUM -> <<"u4E2D">>
      [] severity = LOW -> <<"u4F4E">>
      [] severity = INFO -> <<"u65E0", "u5371", "u80C1">>
      [] OTHER -> severity

\* The location text of a row: country, then province and city when given.
LocationText(data) ==
    data.country
        \o (IF data.province # <<>> THEN <<" ">> \o data.province ELSE <<>>)
        \o (IF data.city # <<>> /\ data.city # data.province
            THEN <<" ">> \o data.city ELSE <<>>)

\* The seven items add_result makes for a payload, by column.
RowItems(ip, data) ==
    [c \in Columns |->
        CASE c = 0 -> Item(ip, <<>>)
          [] c = 1 -> Item(IF data.is_malicious THEN YES ELSE NO, <<>>)
          [] c = 2 -> Item(ConfidenceText(data.confidence_level), data.confidence_level)
          [] c = 3 -> Item(SeverityText(data.severity), <<>>)
          [] c = 4 -> Item(LocationText(data), <<>>)
          [] c = 5 -> Item(data.carrier, <<>>)
          [] c = 6 -> Item(Join(<<",", " ">>, data.judgments), <<>>)]

RECURSIVE SetItemsFrom(_, _, _, _, _)
\* setItem(row, c, ...) for c = col .. 6, each with the same row number.
SetItemsFrom(rows, srt, row, items, col) ==
    IF col > 6 THEN rows
    ELSE SetItemsFrom(setItem(rows, srt, row, col, items[col]), srt, row, items, col + 1)

\* The table after add_result has added the row of a payload: a row is
\* appended and its items are set one column after the other.
AddRow(rows, srt, ip, data) ==
    LET row == Len(rows)
    IN  SetItemsFrom(setRowCount(rows, row + 1), srt, row, RowItems(ip, data), 0)

\* add_result with the test for the IP key replaced by a lookup with a
\* default: the missing payload is stored and its row is added.
add_result_unchecked(result, ip) ==
    IF ~result.has_data
    THEN /\ status' = Status("error_structure", ip)
         /\ UNCHANGED <<current_results, table, labels, export_enabled, job>>
    ELSE IF ip \notin DOMAIN result.data \/ result.data[ip] = NullPayload
    THEN /\ current_results' = DictSet(current_results, ip, NullPayload)
         /\ table' = setRowCount(table, Len(table) + 1)
         /\ status' = Status("error_exception", ip)
         /\ job' = [job EXCEPT !.merged = Append(@, <<ip, NullPayload>>)]
         /\ UNCHANGED <<labels, export_enabled>>
    ELSE /\ current_results' = DictSet(current_results, ip, result.data[ip])
         /\ table' = AddRow(table, sort, ip, result.data[ip])
         /\ labels' = update_statistics(current_results', table')
         /\ export_enabled' = TRUE
         /\ job' = [job EXCEPT !.merged = Append(@, <<ip, result.data[ip]>>)]
         /\ UNCHANGED status

\* add_result(result, ip), the slot of result_signal.
add_result(result, ip) ==
    IF ~result.has_data
    THEN /\ status' = Status("error_structure", ip)
         /\ UNCHANGED <<current_results, table, labels, export_enabled, job>>
    ELSE IF ip \notin DOMAIN result.data
    THEN /\ status' = Status("error_missing", ip)
         /\ UNCHANGED <<current_results, table, labels, export_enabled, job>>
    ELSE IF result.data[ip] = NullPayload
    THEN \* data.keys() raises inside the try: the entry and the empty row stay
         /\ current_results' = DictSet(current_results, ip, result.data[ip])
         /\ table' = setRowCount(table, Len(table) + 1)
         /\ status' = Status("error_exception", ip)
         /\ job' = [job EXCEPT !.merged = Append(@, <<ip, result.data[ip]>>)]
         /\ UNCHANGED <<labels, export_enabled>>
    ELSE /\ current_results' = DictSet(current_results, ip, result.data[ip])
         /\ table' = AddRow(table, sort, ip, result.data[ip])
         /\ labels' = update_statistics(current_results', table')
         /\ export_enabled' = TRUE
         /\ job' = [job EXCEPT !.merged = Append(@, <<ip, result.data[ip]>>)]
         /\ UNCHANGED status

\* ------------------------------------------------------------- the worker

Notice(sig, a, b) == [sig |-> sig, a |-> a, b |-> b]

Finished == Notice("finished", <<>>, <<>>)

\* The JSON bodies a lookup of ip may return.
ResponseOk(ip, payload) ==
    [response_code |-> 0, has_data |-> TRUE, data |-> [k \in {ip} |-> payload]]

ResponseNoKey  == [response_code |-> 0, has_data |-> TRUE, data |-> <<>>]

ResponseNoData == [response_code |-> 0, has_data |-> FALSE, data |-> <<>>]

ResponseError  == [response_code |-> -1, has_data |-> FALSE, data |-> <<>>]

ResponseLimit  == [response_code |-> 2, has_data |-> FALSE, data |-> <<>>]

\* A JSON object with no response_code member.
ResponseNoCode == [has_data |-> FALSE, data |-> <<>>]

\* result.get("response_code") == code
HasCode(result, code) ==
    "response_code" \in DOMAIN result /\ result.response_code = code

Responses(ip) ==
    {ResponseOk(ip, p) : p \in Payloads \cup {NullPayload}}
        \cup {ResponseNoKey, ResponseNoData, ResponseError, ResponseLimit,
              ResponseNoCode}

\* run() returning with no finished signal sent after its last notices.
RunReturnsUnnoticed(notices) ==
    /\ Len(events) + Len(notices) + 1 <= MaxPending
    /\ events' = events \o notices
    /\ thread' = [thread EXCEPT !.pc = "done"]

\* run() returns (the loop ended, a break, or the except clause): QThread
\* emits finished and the thread is no longer running.
RunReturns(notices) ==
    /\ Len(events) + Len(notices) + 1 <= MaxPending
    /\ events' = events \o notices \o <<Finished>>
    /\ thread' = [thread EXCEPT !.pc = "done"]

\* WorkerCheck with the test of the stop flag left out.
WorkerCheckNoFlag ==
    /\ thread.exists
    /\ thread.pc = "check"
    /\ IF thread.pos > Len(thread.ip_addresses)
       THEN RunReturns(<<>>)
       ELSE LET ip == Strip(thread.ip_addresses[thread.pos])
            IN  /\ thread' = IF ip = <<>>
                             THEN [thread EXCEPT !.pos = @ + 1]
                             ELSE [thread EXCEPT !.pc = "request", !.ip = ip]
                /\ UNCHANGED events
    /\ UNCHANGED <<job, inputVars, viewVars, appVars, fileVars>>

\* WorkerCheck with a blank entry counted as processed and reported.
WorkerCheckCountsBlank ==
    /\ thread.exists
    /\ thread.pc = "check"
    /\ IF thread.pos > Len(thread.ip_addresses) \/ thread.stop_flag
       THEN RunReturns(<<>>)
       ELSE LET ip == Strip(thread.ip_addresses[thread.pos])
            IN  IF ip = <<>>
                THEN /\ Len(events) + 1 <= MaxPending
                     /\ thread' = [thread EXCEPT !.pos = @ + 1,
                                                 !.processed_ips = @ + 1]
                     /\ events' = Append(events,
                                         Notice("progress", thread.processed_ips + 1,
                                                Len(thread.ip_addresses)))
                ELSE /\ thread' = [thread EXCEPT !.pc = "request", !.ip = ip]
                     /\ UNCHANGED events
    /\ UNCHANGED <<job, inputVars, viewVars, appVars, fileVars>>

\* Lines 44-50: the next queue entry is taken, the stop flag is tested, the
\* entry is stripped and a blank one is skipped.
WorkerCheck ==
    /\ thread.exists
    /\ thread.pc = "check"
    /\ IF thread.pos > Len(thread.ip_addresses) \/ thread.stop_flag
       THEN RunReturns(<<>>)
       ELSE LET ip == Strip(thread.ip_addresses[thread.pos])
            IN  /\ thread' = IF ip = <<>>
                             THEN [thread EXCEPT !.pos = @ + 1]
                             ELSE [thread EXCEPT !.pc = "request", !.ip = ip]
                /\ UNCHANGED events
    /\ UNCHANGED <<job, inputVars, viewVars, appVars, fileVars>>

\* Line 60: requests.get is called; the lookup is under way.
WorkerGet ==
    /\ thread.exists
    /\ thread.pc = "request"
    /\ thread' = [thread EXCEPT !.pc = "await"]
    /\ job' = [job EXCEPT !.lookups = Append(@, thread.ip)]
    /\ UNCHANGED <<events, inputVars, viewVars, appVars, fileVars>>

\* Classify with response_code 2 handled like any other error code.
ClassifyLimitAsError(result) ==
    IF HasCode(result, 0) /\ result.has_data THEN "result" ELSE "error"

\* Classify by the response code alone: code 0 is a result, with data or not.
ClassifyByCodeOnly(result) ==
    IF HasCode(result, 0) THEN "result"
    ELSE IF HasCode(result, 2) THEN "limit"
    ELSE "error"

\* The branch of lines 66-75 a parsed response takes.
Classify(result) ==
    IF HasCode(result, 0) /\ result.has_data THEN "result"
    ELSE IF HasCode(result, 2) THEN "limit"
    ELSE "error"

\* What the history of a job keeps of a parsed response: whether it has code
\* 0 and data, code 2, no code at all, or anything else.
AnswerKind(result) ==
    IF "response_code" \notin DOMAIN result THEN "nocode"
    ELSE IF result.response_code = 0 /\ result.has_data THEN "data"
    ELSE IF result.response_code = 2 THEN "limit"
    ELSE "other"

\* WorkerRespond that asks again for an entry whose answer was an error.
WorkerRespondRetries(result) ==
    /\ thread.exists
    /\ thread.pc = "await"
    /\ job' = [job EXCEPT
                  !.limits = IF HasCode(result, 2) THEN @ + 1 ELSE @,
                  !.answers = Append(@, AnswerKind(result))]
    /\ IF Classify(result) = "limit"
       THEN RunReturns(<<Notice("limit", <<>>, <<>>)>>)
       ELSE /\ Len(events) + 2 <= MaxPending
            /\ events' = events \o
                 << IF Classify(result) = "result"
                    THEN Notice("result", result, thread.ip)
                    ELSE Notice("error", "ip_error", thread.ip),
                    Notice("progress", thread.processed_ips + 1,
                           Len(thread.ip_addresses)) >>
            /\ thread' = [thread EXCEPT
                             !.processed_ips = @ + 1,
                             !.pos = IF Classify(result) = "error" THEN @ ELSE @ + 1,
                             !.pc = "check"]
    /\ UNCHANGED <<inputVars, viewVars, appVars, fileVars>>

\* Lines 66-82 for a response that was received and parsed: one of result,
\* limit-reached and error is emitted; after a limit the loop is left, else
\* progress is emitted and, after the pause, the loop goes on.
WorkerRespond(result) ==
    /\ thread.exists
    /\ thread.pc = "await"
    /\ job' = [job EXCEPT
                  !.limits = IF HasCode(result, 2) THEN @ + 1 ELSE @,
                  !.answers = Append(@, AnswerKind(result))]
    /\ IF Classify(result) = "limit"
       THEN RunReturns(<<Notice("limit", <<>>, <<>>)>>)
       ELSE /\ Len(events) + 2 <= MaxPending
            /\ events' = events \o
                 << IF Classify(result) = "result"
                    THEN Notice("result", result, thread.ip)
                    ELSE Notice("error", "ip_error", thread.ip),
                    Notice("progress", thread.processed_ips + 1,
                           Len(thread.ip_addresses)) >>
            /\ thread' = [thread EXCEPT !.processed_ips = @ + 1,
                                        !.pos = @ + 1, !.pc = "check"]
    /\ UNCHANGED <<inputVars, viewVars, appVars, fileVars>>

\* What lines 60-61 may raise: requests.get finds no connection, the body is
\* no JSON, the JSON value is no object and has no get.
Exceptions == {<<"ConnectionError">>, <<"JSONDecodeError">>, <<"AttributeError">>}

\* The except clause taken as one more error of the current IP: an error and
\* progress are emitted and the loop goes on.
WorkerRaiseGoesOn(e) ==
    /\ thread.exists
    /\ thread.pc = "await"
    /\ Len(events) + 2 <= MaxPending
    /\ events' = events \o
         << Notice("error", "request_failed", e),
            Notice("progress", thread.processed_ips + 1, Len(thread.ip_addresses)) >>
    /\ thread' = [thread EXCEPT !.processed_ips = @ + 1,
                                !.pos = @ + 1, !.pc = "check"]
    /\ UNCHANGED <<job, inputVars, viewVars, appVars, fileVars>>

\* Lines 60-61 raise e: the except clause emits one error that names e, and
\* run() returns.
WorkerRaise(e) ==
    /\ thread.exists
    /\ thread.pc = "await"
    /\ RunReturns(<<Notice("error", "request_failed", e)>>)
    /\ UNCHANGED <<job, inputVars, viewVars, appVars, fileVars>>


\* ------------------------------------------------- the foreground handlers

\* show_error that also gives the buttons back, as query_finished does.
show_error_enables(kind, ip) ==
    /\ status' = Status(kind, ip)
    /\ query_enabled' = TRUE
    /\ stop_enabled' = FALSE
    /\ UNCHANGED <<job, current_results, table, labels, export_enabled, progress>>

\* show_error(error_msg), the slot of error_signal.
show_error(kind, ip) ==
    /\ status' = Status(kind, ip)
    /\ UNCHANGED <<job, current_results, table, labels, export_enabled,
                   query_enabled, stop_enabled, progress>>

\* update_progress with the label left alone once the stop flag is set.
update_progress_until_stop(current, total) ==
    /\ progress' = IF thread.stop_flag THEN progress ELSE <<current, total>>
    /\ job' = [job EXCEPT !.delivered = @ + 1]
    /\ UNCHANGED <<status, current_results, table, labels, export_enabled,
                   query_enabled, stop_enabled>>

\* update_progress(current, total), the slot of progress_signal.
update_progress(current, total) ==
    /\ progress' = <<current, total>>
    /\ job' = [job EXCEPT !.delivered = @ + 1]
    /\ UNCHANGED <<status, current_results, table, labels, export_enabled,
                   query_enabled, stop_enabled>>

\* show_limit_warning that also empties the aggregate.
show_limit_warning_clears ==
    /\ status' = Status("limit", NoIp)
    /\ current_results' = EmptyResults
    /\ UNCHANGED <<job, table, labels, export_enabled,
                   query_enabled, stop_enabled, progress>>

\* show_limit_warning(message), the slot of limit_reached_signal.
show_limit_warning ==
    /\ status' = Status("limit", NoIp)
    /\ UNCHANGED <<job, current_results, table, labels, export_enabled,
                   query_enabled, stop_enabled, progress>>

\* query_finished that says "completed" only over a status that is neither
\* an error's nor the limit's.
query_finished_keeps_errors ==
    /\ query_enabled' = TRUE
    /\ stop_enabled' = FALSE
    /\ status' = IF thread.exists /\ ~thread.stop_flag
                 THEN IF status[1] \in {"limit", "request_failed", "ip_error"}
                      THEN status
                      ELSE Status("completed", NoIp)
                 ELSE Status("stopped", NoIp)
    /\ UNCHANGED <<job, current_results, table, labels, export_enabled, progress>>

\* query_finished, the slot of the thread's finished signal.
query_finished ==
    /\ query_enabled' = TRUE
    /\ stop_enabled' = FALSE
    /\ status' = IF thread.exists /\ ~thread.stop_flag
                 THEN Status("completed", NoIp)
                 ELSE Status("stopped", NoIp)
    /\ UNCHANGED <<job, current_results, table, labels, export_enabled, progress>>

\* The foreground thread handles the oldest waiting notice in its slot.
HandleNotice ==
    /\ events # <<>>
    /\ events' = Tail(events)
    /\ LET n == Head(events)
       IN  CASE n.sig = "result" ->
                    /\ add_result(n.a, n.b)
                    /\ UNCHANGED <<query_enabled, stop_enabled, progress>>
             [] n.sig = "error"    -> show_error(n.a, n.b)
             [] n.sig = "progress" -> update_progress(n.a, n.b)
             [] n.sig = "limit"    -> show_limit_warning
             [] n.sig = "finished" -> query_finished
    /\ UNCHANGED <<thread, inputVars, sort, sort_combo, sort_direction,
                   show_malicious_only, facet, daily_query_count, fileVars>>

\* --------------------------------------------------------- the user's actions

RECURSIVE TokenSeqs(_, _)
\* The sequences of at most n tokens.
TokenSeqs(tokens, n) ==
    IF n = 0 THEN {<<>>}
    ELSE TokenSeqs(tokens, n - 1)
            \cup {Append(q, t) : q \in TokenSeqs(tokens, n - 1), t \in tokens}

\* The texts the user may leave in the input field before a query: tokens,
\* one per line.
QueryTexts == {Join(<<"\n">>, q) : q \in TokenSeqs(QueryTokens, MaxBatch)}

\* extract_ips with no address filtered out.
ValidIpsUnfiltered == [text \in QueryTexts |-> Dedup(FindAll(text), {})]

\* valid_ips = extract_ips(input_text) of process_ips, for each of these texts.
ValidIps == [text \in QueryTexts |-> extract_ips(text)]

\* process_ips: the field's text after it, ", ".join(valid_ips) or cleared.
ProcessedText(valid_ips) ==
    IF valid_ips # <<>> THEN Join(<<",", " ">>, valid_ips) ELSE <<>>

\* The user types one more piece of text at the end of the input field.
TypePiece(piece) ==
    /\ ~last_extract.done
    /\ last_extract.typed < MaxTokens
    /\ ip_input' = ip_input \o piece
    /\ last_extract' = [last_extract EXCEPT !.typed = @ + 1]
    /\ UNCHANGED <<workerVars, viewVars, appVars, fileVars>>

\* process_ips, from its button: the field's text is replaced by the
\* addresses extract_ips returns for it.
ProcessIps ==
    LET valid_ips == extract_ips(ip_input)
    IN  /\ ip_input' = ProcessedText(valid_ips)
        /\ last_extract' = [last_extract EXCEPT !.done = TRUE, !.text = ip_input,
                                                !.ips = valid_ips]
        /\ status' = IF valid_ips # <<>> THEN Status("extracted", NoIp)
                     ELSE Status("none_found", NoIp)
        /\ UNCHANGED <<workerVars, viewVars, current_results, query_enabled,
                       stop_enabled, export_enabled, labels, progress,
                       daily_query_count, fileVars>>

\* query_ip, with the text the user left in the field and whether an API
\* key is given.  The query button takes clicks only while enabled.
QueryIp(text, has_key) ==
    /\ query_enabled
    /\ LET valid_ips    == ValidIps[text]
           ip_addresses == Strip(ProcessedText(valid_ips))
           queue        == Split(ip_addresses, ",")
       IN  /\ ip_input' = ProcessedText(valid_ips)
           /\ UNCHANGED last_extract
           /\ IF ~has_key \/ ip_addresses = <<>>
              THEN /\ status' = IF valid_ips # <<>> THEN Status("extracted", NoIp)
                                ELSE Status("none_found", NoIp)
                   /\ UNCHANGED <<workerVars, viewVars, current_results, query_enabled,
                                  stop_enabled, export_enabled, labels, progress,
                                  daily_query_count, fileVars>>
              ELSE /\ daily_query_count + Len(queue) <= MaxDaily
                   /\ status' = Status("querying", NoIp)
                   /\ query_enabled' = FALSE
                   /\ stop_enabled' = TRUE
                   /\ current_results' = EmptyResults
                   /\ table' = setRowCount(table, 0)
                   /\ labels' = update_statistics(current_results', table')
                   /\ daily_query_count' = daily_query_count + Len(queue)
                   /\ thread' = [exists |-> TRUE, ip_addresses |-> queue,
                                 stop_flag |-> FALSE, pos |-> 1, processed_ips |-> 0,
                                 pc |-> "check", ip |-> NoIp]
                   /\ job' = NoJob
                   /\ UNCHANGED <<events, sort, sort_combo, sort_direction,
                                  show_malicious_only, facet, export_enabled, progress,
                                  fileVars>>

\* stop_query: the stop button takes clicks only while enabled.
StopQuery ==
    /\ stop_enabled
    /\ IF thread.exists /\ thread.pc # "done"
       THEN /\ thread' = [thread EXCEPT !.stop_flag = TRUE]
            /\ status' = Status("stopping", NoIp)
            /\ job' = IF job.stopped THEN job
                      ELSE [job EXCEPT !.stopped = TRUE,
                                       !.stop_delivered = job.delivered,
                                       !.stop_lookups = Len(job.lookups),
                                       !.stop_pc = thread.pc]
       ELSE UNCHANGED <<thread, status, job>>
    /\ UNCHANGED <<events, inputVars, viewVars, current_results, query_enabled,
                   stop_enabled, export_enabled, labels, progress, daily_query_count,
                   fileVars>>

\* clear_results that also sets the stop flag of the thread.
ClearResultsStops ==
    /\ ip_input' = <<>>
    /\ last_extract' = NoExtract
    /\ table' = setRowCount(table, 0)
    /\ labels' = ZeroLabels
    /\ current_results' = EmptyResults
    /\ export_enabled' = FALSE
    /\ status' = Status("cleared", NoIp)
    /\ job' = [job EXCEPT !.merged = <<>>]
    /\ thread' = [thread EXCEPT !.stop_flag = thread.exists]
    /\ UNCHANGED <<events, sort, sort_combo, sort_direction,
                   show_malicious_only, facet, query_enabled, stop_enabled,
                   progress, daily_query_count, fileVars>>

\* clear_results
ClearResults ==
    /\ ip_input' = <<>>
    /\ last_extract' = NoExtract
    /\ table' = setRowCount(table, 0)
    /\ labels' = ZeroLabels
    /\ current_results' = EmptyResults
    /\ export_enabled' = FALSE
    /\ status' = Status("cleared", NoIp)
    /\ job' = [job EXCEPT !.merged = <<>>]
    /\ UNCHANGED <<thread, events, sort, sort_combo, sort_direction,
                   show_malicious_only, facet, query_enabled, stop_enabled,
                   progress, daily_query_count, fileVars>>

\* The values of the facet labels a click may pass to filter_by_category:
\* the fixed labels, and the carrier and judgment labels now on display.
FacetValues(category) ==
    CASE category = "is_malicious" -> {TRUE, FALSE}
      [] category = "confidence" -> {HIGH, MEDIUM, LOW}
      [] category = "location" -> {"anhui", "china_other", "foreign"}
      [] category = "carrier" -> {labels.carriers[k][1] : k \in DOMAIN labels.carriers}
      [] category = "judgment" -> {labels.judgments[k][1] : k \in DOMAIN labels.judgments}

Categories == {"is_malicious", "confidence", "location", "carrier", "judgment"}

\* A click on a facet label: filter_by_category(category, value).
FilterByCategory(category, value) ==
    /\ table' = filter_by_category(table, show_malicious_only, category, value)
    /\ show_malicious_only' = FALSE
    /\ status' = Status("filtered", NoIp)
    /\ facet' = <<category, value,
                  /\ facet[1] # "none"
                  /\ ~show_malicious_only
                  /\ \E k \in DOMAIN table : table[k].hidden /\ ~table'[k].hidden>>
    /\ UNCHANGED <<inputVars, workerVars, sort, sort_combo, sort_direction,
                   current_results, query_enabled, stop_enabled, export_enabled,
                   labels, progress, daily_query_count, fileVars>>

\* A click on the reset-filter button: reset_filter().
ResetFilter ==
    /\ table' = reset_filter(table, show_malicious_only)
    /\ status' = Status("reset", NoIp)
    /\ facet' = NoFacet
    /\ UNCHANGED <<inputVars, workerVars, sort, sort_combo, sort_direction,
                   show_malicious_only, current_results, query_enabled,
                   stop_enabled, export_enabled, labels, progress, daily_query_count,
                   fileVars>>

\* A click on the malicious-only box: stateChanged runs filter_table().
ToggleMaliciousOnly ==
    /\ show_malicious_only' = ~show_malicious_only
    /\ table' = filter_table(table, show_malicious_only')
    /\ status' = Status("shown", NoIp)
    /\ UNCHANGED <<inputVars, workerVars, sort, sort_combo, sort_direction, facet,
                   current_results, query_enabled, stop_enabled, export_enabled,
                   labels, progress, daily_query_count, fileVars>>

\* One of the two sort boxes is changed: currentIndexChanged runs sort_table().
SortTable(column, direction) ==
    /\ \/ column # sort_combo /\ direction = sort_direction
       \/ column = sort_combo /\ direction # sort_direction
    /\ sort_combo' = column
    /\ sort_direction' = direction
    /\ sort' = [section |-> column,
                order |-> IF direction = 0 THEN "asc" ELSE "desc"]
    /\ table' = sortItems(table, column, sort'.order)
    /\ UNCHANGED <<inputVars, workerVars, show_malicious_only, facet, appVars, fileVars>>

\* The rows the running job may still add: one for each notice of a result
\* that waits and for each queue entry the worker has not answered.
RowsToCome ==
    Cardinality({k \in DOMAIN events : events[k].sig = "result"})
        + (IF thread.exists /\ thread.pc # "done"
           THEN Len(thread.ip_addresses) - thread.processed_ips ELSE 0)

\* The slot add_result called directly with a response and an IP, as a caller
\* other than the worker of this program may: the same IP may come twice.
DeliverResult(result, ip) ==
    /\ Len(table) + RowsToCome < MaxRows
    /\ add_result(result, ip)
    /\ UNCHANGED <<thread, events, inputVars, sort, sort_combo, sort_direction,
                   show_malicious_only, facet, query_enabled, stop_enabled,
                   progress, daily_query_count, fileVars>>

\* ApiThread(api_key, ip_addresses, lang) made and started for the first job
\* with a text of any shape, as a caller other than query_ip may: entries of
\* the queue may be blank.  The buttons are set as query_ip sets them.
StartThread(ip_addresses) ==
    /\ ~thread.exists
    /\ query_enabled
    /\ thread' = [exists |-> TRUE, ip_addresses |-> Split(ip_addresses, ","),
                  stop_flag |-> FALSE, pos |-> 1, processed_ips |-> 0,
                  pc |-> "check", ip |-> NoIp]
    /\ query_enabled' = FALSE
    /\ stop_enabled' = TRUE
    /\ UNCHANGED <<events, job, inputVars, viewVars, fileVars, current_results,
                   export_enabled, labels, status, progress, daily_query_count>>

\* ---------------------------------------------------------- export_as_json

\* The values json works on: None, a bool, a str, a list, a dict (its items
\* in insertion order, each a key and a value).
JsonNull == [null |-> TRUE]

JsonBool(b) == [bool |-> b]

JsonString(s) == [str |-> s]

JsonArray(items) == [list |-> items]

JsonObject(members) == [obj |-> members]

\* The key of the exported document.
KeyData == <<"d", "a", "t", "a">>
\* The value response.json() gave for a payload: the dict add_result reads
\* with data.get("is_malicious"), data.get("basic").get("location") and so
\* on, or None.
PayloadJson(payload) ==
    LET KeyIsMalicious == <<"i", "s", "_", "m", "a", "l", "i", "c", "i", "o", "u", "s">>
        KeyConfidenceLevel ==
            <<"c", "o", "n", "f", "i", "d", "e", "n", "c", "e", "_", "l", "e", "v", "e", "l">>
        KeySeverity == <<"s", "e", "v", "e", "r", "i", "t", "y">>
        KeyBasic == <<"b", "a", "s", "i", "c">>
        KeyCarrier == <<"c", "a", "r", "r", "i", "e", "r">>
        KeyLocation == <<"l", "o", "c", "a", "t", "i", "o", "n">>
        KeyCountry == <<"c", "o", "u", "n", "t", "r", "y">>
        KeyProvince == <<"p", "r", "o", "v", "i", "n", "c", "e">>
        KeyCity == <<"c", "i", "t", "y">>
        KeyJudgments == <<"j", "u", "d", "g", "m", "e", "n", "t", "s">>
    IN
    IF "null" \in DOMAIN payload THEN JsonNull
    ELSE JsonObject(<<
           <<KeyIsMalicious, JsonBool(payload.is_malicious)>>,
           <<KeyConfidenceLevel, JsonString(payload.confidence_level)>>,
           <<KeySeverity, JsonString(payload.severity)>>,
           <<KeyBasic, JsonObject(<<
               <<KeyCarrier, JsonString(payload.carrier)>>,
               <<KeyLocation, JsonObject(<<
                   <<KeyCountry, JsonString(payload.country)>>,
                   <<KeyProvince, JsonString(payload.province)>>,
                   <<KeyCity, JsonString(payload.city)>> >>)>> >>)>>,
           <<KeyJudgments,
             JsonArray([k \in DOMAIN payload.judgments |->
                           JsonString(payload.judgments[k])])>> >>)

\* {"data": self.current_results["data"]}
ResultsJson(results) ==
    JsonObject(<< <<KeyData,
                    JsonObject([k \in DOMAIN results.keys |->
                        <<results.keys[k],
                          PayloadJson(results.data[results.keys[k]])>>])>> >>)

\* The encoder that leaves every character of a string as it is.
EscapeCharRaw(c) == <<c>>

\* json.encoder.py_encode_basestring (ensure_ascii=False): the quote, the
\* backslash and the control characters are escaped, all else is kept.
EscapeChar(c) ==
    CASE c = "\"" -> <<"\\", "\"">>
      [] c = "\\" -> <<"\\", "\\">>
      [] c = "\n" -> <<"\\", "n">>
      [] c = "\r" -> <<"\\", "r">>
      [] c = "\t" -> <<"\\", "t">>
      [] OTHER -> <<c>>

encode_string(s) ==
    <<"\"">> \o Concat([k \in DOMAIN s |-> EscapeChar(s[k])]) \o <<"\"">>

\* The indent of json.dump(..., indent=4): 4 spaces for each level.
IndentWidth == 4

\* newline_indent at a level of nesting.
NewlineIndent(level) == <<"\n">> \o [k \in 1..(IndentWidth * level) |-> " "]

RECURSIVE iterencode(_, _)
\* json.encoder._make_iterencode with indent=4, the item separator "," and the
\* key separator ": ".
iterencode(o, level) ==
    IF "null" \in DOMAIN o THEN <<"n", "u", "l", "l">>
    ELSE IF "bool" \in DOMAIN o
    THEN (IF o.bool THEN <<"t", "r", "u", "e">> ELSE <<"f", "a", "l", "s", "e">>)
    ELSE IF "str" \in DOMAIN o THEN encode_string(o.str)
    ELSE IF "list" \in DOMAIN o
    THEN IF o.list = <<>> THEN <<"[", "]">>
         ELSE <<"[">>
              \o Concat([k \in DOMAIN o.list |->
                    (IF k > 1 THEN <<",">> ELSE <<>>)
                    \o NewlineIndent(level + 1)
                    \o iterencode(o.list[k], level + 1)])
              \o NewlineIndent(level) \o <<"]">>
    ELSE IF o.obj = <<>> THEN <<"{", "}">>
         ELSE <<"{">>
              \o Concat([k \in DOMAIN o.obj |->
                    (IF k > 1 THEN <<",">> ELSE <<>>)
                    \o NewlineIndent(level + 1)
                    \o encode_string(o.obj[k][1]) \o <<":", " ">>
                    \o iterencode(o.obj[k][2], level + 1)])
              \o NewlineIndent(level) \o <<"}">>

\* export_as_json: the text json.dump writes to the file.
export_as_json(results) == iterencode(ResultsJson(results), 0)

\* json.decoder.WHITESPACE.match(s, i).end(): the first index from i on with
\* no whitespace.
SkipWhitespace(s, i) ==
    LET Whitespace == {" ", "\t", "\n", "\r"}
    IN
    CHOOSE j \in i..(Len(s) + 1) :
        /\ \A k \in i..(j - 1) : s[k] \in Whitespace
        /\ j = Len(s) + 1 \/ s[j] \notin Whitespace

\* A scan that raised JSONDecodeError, and one that returned a value and the
\* index after it.
ScanFailed == [ok |-> FALSE, value |-> JsonNull, next |-> 0]

Scanned(value, next) == [ok |-> TRUE, value |-> value, next |-> next]

\* json.decoder.BACKSLASH: the character an escape stands for ("": none;
\* \uXXXX is not among the escapes the encoder writes for these texts).
Unescape(c) ==
    CASE c = "\"" -> "\""
      [] c = "\\" -> "\\"
      [] c = "/" -> "/"
      [] c = "n" -> "\n"
      [] c = "r" -> "\r"
      [] c = "t" -> "\t"
      [] OTHER -> ""

RECURSIVE scanstring(_, _, _)
\* json.decoder.py_scanstring (strict): from the index after the opening
\* quote to the closing quote; a control character in the string is an error.
scanstring(s, i, chunks) ==
    IF i > Len(s) THEN ScanFailed
    ELSE IF s[i] = "\"" THEN Scanned(chunks, i + 1)
    ELSE IF s[i] = "\\"
    THEN IF i + 1 > Len(s) \/ Unescape(s[i + 1]) = "" THEN ScanFailed
         ELSE scanstring(s, i + 2, Append(chunks, Unescape(s[i + 1])))
    ELSE IF s[i] \in {"\n", "\r", "\t"} THEN ScanFailed
    ELSE scanstring(s, i + 1, Append(chunks, s[i]))

RECURSIVE scan_once(_, _)
RECURSIVE JSONObject(_, _, _)
RECURSIVE JSONArray(_, _, _)

\* json.decoder.JSONObject: from the index after "{" or after a ",".
JSONObject(s, i, pairs) ==
    LET k == SkipWhitespace(s, i)
    IN  IF k > Len(s) THEN ScanFailed
        ELSE IF s[k] = "}" /\ pairs = <<>> THEN Scanned(JsonObject(<<>>), k + 1)
        ELSE IF s[k] # "\"" THEN ScanFailed
        ELSE LET key == scanstring(s, k + 1, <<>>)
             IN  IF ~key.ok THEN ScanFailed
                 ELSE LET colon == SkipWhitespace(s, key.next)
                      IN  IF colon > Len(s) \/ s[colon] # ":" THEN ScanFailed
                          ELSE LET v == scan_once(s, SkipWhitespace(s, colon + 1))
                               IN  IF ~v.ok THEN ScanFailed
                                   ELSE LET e == SkipWhitespace(s, v.next)
                                            more == Append(pairs, <<key.value, v.value>>)
                                        IN  IF e > Len(s) THEN ScanFailed
                                            ELSE IF s[e] = "}"
                                            THEN Scanned(JsonObject(more), e + 1)
                                            ELSE IF s[e] = ","
                                            THEN JSONObject(s, e + 1, more)
                                            ELSE ScanFailed

\* json.decoder.JSONArray: from the index after "[" or after a ",".
JSONArray(s, i, values) ==
    LET k == SkipWhitespace(s, i)
    IN  IF k > Len(s) THEN ScanFailed
        ELSE IF s[k] = "]" /\ values = <<>> THEN Scanned(JsonArray(<<>>), k + 1)
        ELSE LET v == scan_once(s, k)
             IN  IF ~v.ok THEN ScanFailed
                 ELSE LET e == SkipWhitespace(s, v.next)
                          more == Append(values, v.value)
                      IN  IF e > Len(s) THEN ScanFailed
                          ELSE IF s[e] = "]" THEN Scanned(JsonArray(more), e + 1)
                          ELSE IF s[e] = "," THEN JSONArray(s, e + 1, more)
                          ELSE ScanFailed

\* json.scanner.py_make_scanner, _scan_once (no numbers: the payloads hold
\* none).
scan_once(s, i) ==
    LET HasAt(word) ==
            /\ i + Len(word) - 1 <= Len(s)
            /\ SubSeq(s, i, i + Len(word) - 1) = word
    IN
    IF i > Len(s) THEN ScanFailed
    ELSE IF s[i] = "\""
    THEN LET r == scanstring(s, i + 1, <<>>)
         IN  IF r.ok THEN Scanned(JsonString(r.value), r.next) ELSE ScanFailed
    ELSE IF s[i] = "{" THEN JSONObject(s, i + 1, <<>>)
    ELSE IF s[i] = "[" THEN JSONArray(s, i + 1, <<>>)
    ELSE IF HasAt(<<"n", "u", "l", "l">>) THEN Scanned(JsonNull, i + 4)
    ELSE IF HasAt(<<"t", "r", "u", "e">>) THEN Scanned(JsonBool(TRUE), i + 4)
    ELSE IF HasAt(<<"f", "a", "l", "s", "e">>) THEN Scanned(JsonBool(FALSE), i + 5)
    ELSE ScanFailed

\* json.loads(s): JSONDecoder.decode, one value with whitespace around it
\* (error: JSONDecodeError is raised).
json_loads(s) ==
    LET r == scan_once(s, SkipWhitespace(s, 1))
    IN  IF r.ok /\ SkipWhitespace(s, r.next) = Len(s) + 1 THEN r.value
        ELSE [error |-> TRUE]

\* A payload whose carrier holds a quote, a backslash and a line break, and
\* the payloads of the aggregates that are exported.
PayloadQuoted ==
    [PayloadSafeHigh EXCEPT !.carrier = <<"\"", "x", "\\", "\n">>]

ExportPayloads == Payloads \cup {NullPayload, PayloadQuoted}

\* export_results with a file name that ends in .json: nothing is written
\* for an empty aggregate; the export button takes clicks only while enabled.
ExportResults ==
    /\ export_enabled
    /\ current_results.keys # <<>>
    /\ exported' = [written |-> TRUE,
                    text |-> export_as_json(current_results),
                    data |-> current_results]
    /\ UNCHANGED <<inputVars, workerVars, viewVars, appVars>>

\* ----------------------------------------------------- the specifications

\* The whole program: every action of the user, the worker and the handlers.
Next ==
    \/ \E piece \in Pieces : TypePiece(piece)
    \/ ProcessIps
    \/ \E text \in QueryTexts, has_key \in BOOLEAN : QueryIp(text, has_key)
    \/ StopQuery
    \/ ClearResults
    \/ WorkerCheck
    \/ WorkerGet
    \/ \E result \in Responses(thread.ip) : WorkerRespond(result)
    \/ \E e \in Exceptions : WorkerRaise(e)
    \/ HandleNotice
    \/ \E category \in Categories :
           \E value \in FacetValues(category) : FilterByCategory(category, value)
    \/ ResetFilter
    \/ ToggleMaliciousOnly
    \/ \E column \in 0..5, direction \in 0..1 : SortTable(column, direction)

Spec == Init /\ [][Next]_vars

\* The input field and the extract button alone.
NextExtract ==
    \/ \E piece \in Pieces : TypePiece(piece)
    \/ ProcessIps

SpecExtract == Init /\ [][NextExtract]_vars

\* The query job: the query, stop and clear buttons, the worker, the handlers.
NextJob ==
    \/ \E text \in QueryTexts, has_key \in BOOLEAN : QueryIp(text, has_key)
    \/ StopQuery
    \/ ClearResults
    \/ WorkerCheck
    \/ WorkerGet
    \/ \E result \in Responses(thread.ip) : WorkerRespond(result)
    \/ \E e \in Exceptions : WorkerRaise(e)
    \/ HandleNotice

SpecJob == Init /\ [][NextJob]_vars

\* A step of the worker thread: the one its place in run() allows.
WorkerStep ==
    \/ WorkerCheck
    \/ WorkerGet
    \/ \E result \in Responses(thread.ip) : WorkerRespond(result)
    \/ \E e \in Exceptions : WorkerRaise(e)

\* A step of the event loop of the foreground thread: the oldest notice
\* leaves the queue.  HandleNotice is the one action that takes a notice, and
\* it is enabled whenever one waits.
EventLoopStep == events # <<>> /\ events' = Tail(events)

\* SpecJob with the worker thread scheduled, every requests.get returning or
\* raising, and the event loop handling what waits.
FairJob ==
    /\ SpecJob
    /\ WF_vars(WorkerStep)
    /\ WF_events(EventLoopStep)

\* A query job that is neither stopped nor cut short by a transport error,
\* and add_result called directly as well.
NextOpen ==
    \/ \E text \in QueryTexts : QueryIp(text, TRUE)
    \/ ClearResults
    \/ WorkerCheck
    \/ WorkerGet
    \/ \E result \in Responses(thread.ip) : WorkerRespond(result)
    \/ HandleNotice
    \/ \E ip \in QueryIps : \E result \in Responses(ip) : DeliverResult(result, ip)

SpecOpen == Init /\ [][NextOpen]_vars

\* The query job without the stop button, and the filters of the table.
NextView ==
    \/ \E text \in QueryTexts, has_key \in BOOLEAN : QueryIp(text, has_key)
    \/ ClearResults
    \/ WorkerCheck
    \/ WorkerGet
    \/ \E result \in Responses(thread.ip) : WorkerRespond(result)
    \/ \E e \in Exceptions : WorkerRaise(e)
    \/ HandleNotice
    \/ \E category \in Categories :
           \E value \in FacetValues(category) : FilterByCategory(category, value)
    \/ ResetFilter
    \/ ToggleMaliciousOnly

SpecView == Init /\ [][NextView]_vars

\* add_result called directly with the payloads that are exported, and the
\* export button.
NextExport ==
    \/ \E ip \in QueryIps :
           \E payload \in ExportPayloads : DeliverResult(ResponseOk(ip, payload), ip)
    \/ ClearResults
    \/ ExportResults

SpecExport == Init /\ [][NextExport]_vars

\* The worker alone, started on a queue with blank entries among the IPs.
NextWorker ==
    \/ \E text \in { IpA \o <<",", ",">> \o IpB,
                      <<" ", ",">> \o IpA \o <<",", " ">> \o IpB,
                      IpA \o <<",", " ", "\n">>,
                      <<>> } : StartThread(text)
    \/ WorkerCheck
    \/ WorkerGet
    \/ \E result \in Responses(thread.ip) : WorkerRespond(result)
    \/ \E e \in Exceptions : WorkerRaise(e)
    \/ HandleNotice

SpecWorker == Init /\ [][NextWorker]_vars

\* Jobs of one IP, with every action of the user on the results: query, stop,
\* clear, the export, and of the filters the malicious facet, the box and the
\* reset button.
NextBusy ==
    \/ \E has_key \in BOOLEAN : QueryIp(IpA, has_key)
    \/ StopQuery
    \/ ClearResults
    \/ WorkerCheck
    \/ WorkerGet
    \/ \E result \in Responses(thread.ip) : WorkerRespond(result)
    \/ \E e \in Exceptions : WorkerRaise(e)
    \/ HandleNotice
    \/ \E value \in FacetValues("is_malicious") : FilterByCategory("is_malicious", value)
    \/ ResetFilter
    \/ ToggleMaliciousOnly
    \/ ExportResults

SpecBusy == Init /\ [][NextBusy]_vars

\* Payloads with judgment lists of six tags between them, some tags in more
\* lists than one, and with either carrier.
LabelPayloads ==
    LET a == <<"a">>
        b == <<"b">>
        c == <<"c">>
        d == <<"d">>
        e == <<"e">>
        f == <<"f">>
        lists == { <<a, b, c>>, <<d, e, f>>, <<f, a>>, <<c, d, e, f>>, <<e>>,
                   <<b, a, f, e>> }
    IN  { [PayloadMalHigh EXCEPT !.judgments = judgments, !.carrier = carrier] :
              judgments \in lists, carrier \in {TELECOM, UNICOM} }

\* update_statistics and create_dynamic_labels applied to tables whose rows
\* have more than five tags between them: add_result called, as by
\* DeliverResult, with each of these payloads, and clear_results.
NextLabels ==
    \/ \E ip \in QueryIps, payload \in LabelPayloads :
           DeliverResult(ResponseOk(ip, payload), ip)
    \/ ClearResults

SpecLabels == Init /\ [][NextLabels]_vars

\* ------------------------------------------------------------- properties

\* The addresses ipaddress calls private, loopback, multicast or reserved,
\* by their octets.
SpecialUse(addr) ==
    \/ addr[1] \in {0, 10, 127}
    \/ addr[1] = 169 /\ addr[2] = 254
    \/ addr[1] = 172 /\ addr[2] \in 16..31
    \/ addr[1] = 192 /\ addr[2] = 168
    \/ addr[1] = 192 /\ addr[2] = 0 /\ addr[3] = 0 /\ addr[4] \in (0..7) \cup {170, 171}
    \/ addr[1] = 192 /\ addr[2] = 0 /\ addr[3] = 2
    \/ addr[1] = 198 /\ addr[2] \in {18, 19}
    \/ addr[1] = 198 /\ addr[2] = 51 /\ addr[3] = 100
    \/ addr[1] = 203 /\ addr[2] = 0 /\ addr[3] = 113
    \/ addr[1] >= 224

\* The place of the first occurrence of x in seq.
FirstIndex(seq, x) ==
    CHOOSE i \in DOMAIN seq : seq[i] = x /\ \A j \in 1..(i - 1) : seq[j] # x

\* A candidate of the scan that parses and is of no special use.
Survives(candidate) ==
    ParseIPv4(candidate) # <<>> /\ ~SpecialUse(ParseIPv4(candidate))

\* C1: whatever text process_ips gave to extract_ips, every element of the
\* list it got back is a candidate of the text that parses as an IPv4 address
\* and is neither private, loopback, multicast nor reserved; no element occurs
\* twice; the elements are in the order of their first occurrence in the text;
\* and the list is empty when no candidate survives.
ExtractContract ==
    last_extract.done =>
        LET ips        == last_extract.ips
            candidates == FindAll(last_extract.text)
        IN  /\ \A i \in DOMAIN ips :
                   ips[i] \in Range(candidates) /\ Survives(ips[i])
            /\ \A i, j \in DOMAIN ips : i # j => ips[i] # ips[j]
            /\ \A i, j \in DOMAIN ips :
                   i < j => FirstIndex(candidates, ips[i]) < FirstIndex(candidates, ips[j])
            /\ (\A k \in DOMAIN candidates : ~Survives(candidates[k])) => ips = <<>>

\* A text with a repeated public address was extracted: the repeat is dropped,
\* the first occurrences keep their order.
ExtractContractSeen ==
    /\ last_extract.done
    /\ FindAll(last_extract.text) = <<IpB, IpA, IpB>>
    /\ last_extract.ips = <<IpB, IpA>>

\* The signals of a queue of notices, in order.
Signals(queue) == [k \in DOMAIN queue |-> queue[k].sig]

\* C2: the step in which a lookup returns response_code 2 emits one
\* limit-reached notice and ends run(), at most one lookup of a job returns
\* it, and from then on no lookup is issued in that job.
LimitEndsJob ==
    [][ /\ job'.limits > job.limits =>
              /\ job'.limits = 1
              /\ SubSeq(events', 1, Len(events)) = events
              /\ Signals(events') = Signals(events) \o <<"limit", "finished">>
              /\ thread'.pc = "done"
        /\ (job.limits >= 1 /\ job'.limits >= 1) => job'.lookups = job.lookups
      ]_vars

\* A job ended by the limit with an IP of its queue never looked up.
LimitEndsJobSeen ==
    /\ job.limits = 1
    /\ thread.pos < Len(thread.ip_addresses)
    /\ Len(job.lookups) = 1
    /\ query_enabled

\* C3 as stated: once the stop flag is set, no lookup is issued that had not
\* been issued when it was set.
NoLookupAfterStop ==
    job.stopped => Len(job.lookups) = job.stop_lookups

\* C3, amended: once the stop flag is set, the worker issues at most the one
\* lookup of the IP for which it had already tested the flag, and none when
\* the flag was set at any other point of its loop.
NoLookupAfterStopButCurrent ==
    job.stopped =>
        Len(job.lookups) <= job.stop_lookups + (IF job.stop_pc = "request" THEN 1 ELSE 0)

\* The flag was set between the test and the request, the request was made,
\* and the job is over.
NoLookupAfterStopSeen ==
    /\ job.stopped
    /\ job.stop_pc = "request"
    /\ Len(job.lookups) = job.stop_lookups + 1
    /\ query_enabled

\* The job was stopped and its finished notice has been handled.
StoppedJobOver == job.stopped /\ query_enabled

\* C4 as stated: a job stopped when k progress updates had been delivered
\* ends with at most k entries in the aggregate and, for k >= 1, with (k, n)
\* as the progress shown.
StopAfterDelivered ==
    StoppedJobOver =>
        /\ Len(current_results.keys) <= job.stop_delivered
        /\ job.stop_delivered >= 1 =>
               progress = <<job.stop_delivered, Len(thread.ip_addresses)>>

\* C4, amended: a job stopped when k progress updates had been delivered ends
\* with m IPs processed by the worker, k <= m and m at most the lookups
\* started when the flag was set plus the one the worker had passed its test
\* for; the aggregate holds at most m entries and, for m >= 1, the progress
\* shown is (m, n).
StopAfterProcessed ==
    StoppedJobOver =>
        LET m == thread.processed_ips
        IN  /\ job.stop_delivered <= m
            /\ m <= job.stop_lookups + (IF job.stop_pc = "request" THEN 1 ELSE 0)
            /\ Len(current_results.keys) <= m
            /\ m >= 1 => progress = <<m, Len(thread.ip_addresses)>>

\* A stopped job ended with one more IP processed and merged than progress
\* updates had been delivered when the user stopped it.
StopAfterProcessedSeen ==
    /\ StoppedJobOver
    /\ thread.processed_ips = job.stop_delivered + 1
    /\ Len(current_results.keys) = thread.processed_ips
    /\ progress = <<thread.processed_ips, Len(thread.ip_addresses)>>

\* A step in which add_result runs on (result, ip): called directly, or as
\* the slot of the oldest waiting notice.
AddResultStep(result, ip) ==
    \/ DeliverResult(result, ip)
    \/ /\ events # <<>>
       /\ Head(events).sig = "result"
       /\ Head(events).b = ip
       /\ Head(events).a = result
       /\ HandleNotice

\* C5: merging a successful response for an IP that the aggregate holds with
\* another payload leaves the keys as they were, the IP among them once, and
\* the later payload under it.
MergeOverwrites ==
    [][ \A ip \in QueryIps : \A payload \in Payloads :
            ( /\ ip \in Range(current_results.keys)
              /\ current_results.data[ip] # payload
              /\ AddResultStep(ResponseOk(ip, payload), ip) )
            => /\ current_results'.keys = current_results.keys
               /\ Cardinality({k \in DOMAIN current_results'.keys :
                                  current_results'.keys[k] = ip}) = 1
               /\ current_results'.data[ip] = payload
      ]_vars

\* One IP was merged twice with two payloads: the aggregate holds it once,
\* with the later one.
MergeOverwritesSeen ==
    /\ Len(job.merged) = 2
    /\ job.merged[1][1] = job.merged[2][1]
    /\ job.merged[1][2] \in Payloads
    /\ job.merged[2][2] \in Payloads
    /\ job.merged[1][2] # job.merged[2][2]
    /\ current_results.keys = <<job.merged[2][1]>>
    /\ current_results.data[job.merged[2][1]] = job.merged[2][2]

EntriesPersist ==
    [][ \/ ClearResults
        \/ \E text \in QueryTexts : QueryIp(text, TRUE) /\ ~query_enabled'
        \/ \A ip \in Range(current_results.keys) :
               \/ /\ ip \in Range(current_results'.keys)
                  /\ current_results'.data[ip] = current_results.data[ip]
               \/ \E result \in Responses(ip) : AddResultStep(result, ip)
      ]_vars

\* An entry was merged, the lookup of the next IP met the limit, the user
\* pressed stop, the job is over: the entry is there.
EntriesPersistSeen ==
    /\ Len(current_results.keys) = 1
    /\ job.merged = <<<<current_results.keys[1], current_results.data[current_results.keys[1]]>>>>
    /\ Len(job.lookups) = 2
    /\ job.limits = 1
    /\ job.stopped
    /\ query_enabled

\* C8: the malicious count and the safe count on display add up to the total
\* on display.
CountsAddUp == labels.malicious + labels.safe = labels.total

\* Two IPs are counted, one of them malicious, while a filter hides a row.
CountsAddUpSeen ==
    /\ labels.total = 2
    /\ labels.malicious = 1
    /\ labels.safe = 1
    /\ \E k \in DOMAIN table : table[k].hidden

\* The rows on display, the rows whose malicious cell reads "yes", the rows
\* of high confidence, and the rows a facet matches.
Visible(rows) == {k \in DOMAIN rows : ~rows[k].hidden}

MaliciousRows(rows) ==
    {k \in DOMAIN rows : rows[k].cells[1].has /\ rows[k].cells[1].text = YES}

HighRows(rows) == {k \in DOMAIN rows : ConfidenceTier(rows[k]) = HIGH}

FacetRows(rows, f) == {k \in DOMAIN rows : show_row(rows[k], f[1], f[2])}

\* No job is running and no notice waits.
Idle == query_enabled /\ events = <<>>

\* C9: with no job running, when the facet filter (confidence, high) has left
\* the rows of high confidence on display, checking the box leaves exactly the
\* malicious ones of them; and when reset_filter then runs with the box
\* checked, exactly the malicious rows are on display.
FacetThenMaliciousOnly ==
    [][ /\ ( /\ Idle
             /\ facet[1] = "confidence" /\ facet[2] = HIGH
             /\ ~show_malicious_only
             /\ Visible(table) = HighRows(table)
             /\ ToggleMaliciousOnly )
           => Visible(table') = HighRows(table') \cap MaliciousRows(table')
        /\ ( /\ Idle
             /\ facet[1] = "confidence" /\ facet[2] = HIGH
             /\ show_malicious_only
             /\ Visible(table) = HighRows(table) \cap MaliciousRows(table)
             /\ ResetFilter )
           => Visible(table') = MaliciousRows(table')
      ]_vars

\* Every row holds its malicious item.
RowsComplete == \A k \in DOMAIN table : table[k].cells[1].has

\* C10: with no job running and every row complete, when a facet filter and
\* the checked box have left the malicious rows of the facet on display,
\* unchecking the box leaves exactly the rows of the facet.
UncheckKeepsFacet ==
    [][ ( /\ Idle
          /\ RowsComplete
          /\ facet[1] # "none"
          /\ show_malicious_only
          /\ Visible(table) = FacetRows(table, facet) \cap MaliciousRows(table)
          /\ ToggleMaliciousOnly )
        => Visible(table') = FacetRows(table', facet)
      ]_vars

\* A click on any facet label.
AnyFacetClick ==
    \E category \in Categories :
        \E value \in FacetValues(category) : FilterByCategory(category, value)

\* C11: with no job running and every row complete, a click on a facet label
\* while the box is checked leaves on display exactly the malicious rows that
\* match the facet, and leaves the box checked.
FacetKeepsMaliciousOnly ==
    [][ ( /\ Idle
          /\ RowsComplete
          /\ show_malicious_only
          /\ AnyFacetClick )
        => /\ Visible(table') = FacetRows(table', facet') \cap MaliciousRows(table')
           /\ show_malicious_only' = show_malicious_only
      ]_vars

\* C12: with the box unchecked and the rows of facet A on display, a click on
\* the label of facet B leaves on display exactly the rows that match B.
SecondFacetReplacesFirst ==
    [][ ( /\ facet[1] # "none"
          /\ ~show_malicious_only
          /\ Visible(table) = FacetRows(table, facet)
          /\ AnyFacetClick )
        => Visible(table') = FacetRows(table', facet')
      ]_vars

\* Facet B is on display after facet A, with a row that A had hidden, and
\* another row that does not match B is hidden.
SecondFacetReplacesFirstSeen ==
    /\ facet[3]
    /\ ~show_malicious_only
    /\ Visible(table) = FacetRows(table, facet)
    /\ Visible(table) # {}
    /\ Visible(table) # DOMAIN table

\* The rows on display, in the order of the table.
VisibleRows(rows) == SelectSeq(rows, LAMBDA r : ~r.hidden)

\* The counts of the statistics labels taken over the rows on display.
CountsOfVisible ==
    LET shown == VisibleRows(table)
        malicious == Cardinality(MaliciousRows(shown))
    IN  [total |-> Len(shown),
         malicious |-> malicious,
         safe |-> Len(shown) - malicious,
         high |-> Cardinality({k \in DOMAIN shown : ConfidenceTier(shown[k]) = HIGH}),
         medium |-> Cardinality({k \in DOMAIN shown : ConfidenceTier(shown[k]) = MEDIUM}),
         low |-> Cardinality({k \in DOMAIN shown : ConfidenceTier(shown[k]) = LOW}),
         anhui |-> Cardinality({k \in DOMAIN shown : LocationBucket(shown[k]) = "anhui"}),
         china_other |->
             Cardinality({k \in DOMAIN shown : LocationBucket(shown[k]) = "china_other"}),
         foreign |-> Cardinality({k \in DOMAIN shown : LocationBucket(shown[k]) = "foreign"}),
         carriers |-> create_dynamic_labels(
                          CountNames(Concat([k \in DOMAIN shown |-> CarrierNames(shown[k])]))),
         judgments |-> create_dynamic_labels(
                          CountNames(Concat([k \in DOMAIN shown |-> JudgmentNames(shown[k])])))]

\* C13: with every row complete, after a click on a facet label, on the box
\* or on the reset button, and after a result is merged, the statistics
\* labels show the counts taken over the rows on display.
CountsFollowView ==
    [][ ( /\ RowsComplete
          /\ \A k \in DOMAIN table' : table'[k].cells[1].has
          /\ \/ AnyFacetClick
             \/ ToggleMaliciousOnly
             \/ ResetFilter
             \/ Len(current_results'.keys) > Len(current_results.keys) )
        => labels' = CountsOfVisible'
      ]_vars

\* C14: the document parsed from the file export_as_json wrote is an object
\* with the one member data, an object with exactly the keys of the exported
\* aggregate, each with the payload the aggregate held for it.
ExportRoundTrip ==
    exported.written =>
        LET doc == json_loads(exported.text)
            stored == exported.data
        IN  /\ DOMAIN doc = {"obj"}
            /\ Len(doc.obj) = 1
            /\ doc.obj[1][1] = KeyData
            /\ DOMAIN doc.obj[1][2] = {"obj"}
            /\ LET M == doc.obj[1][2].obj
               IN  /\ Len(M) = Len(stored.keys)
                   /\ {M[k][1] : k \in DOMAIN M} = Range(stored.keys)
                   /\ \A k \in DOMAIN M :
                          M[k][2] = PayloadJson(stored.data[M[k][1]])

\* A file was written for an aggregate of two entries, one of them the
\* payload with the quote, the backslash and the line break, the other null.
ExportRoundTripSeen ==
    /\ exported.written
    /\ Len(exported.data.keys) = 2
    /\ \E ip \in Range(exported.data.keys) : exported.data.data[ip] = PayloadQuoted
    /\ \E ip \in Range(exported.data.keys) : exported.data.data[ip] = NullPayload

\* The signals of the notices a step adds to the queue.
Emitted == SubSeq(Signals(events'), Len(events) + 1, Len(events'))

\* The step treats the worker's current IP as a per-IP error: one error
\* notice that names the IP, then progress, and the loop goes on with the
\* next queue entry.
PerIpError ==
    /\ Len(events') = Len(events) + 2
    /\ SubSeq(events', 1, Len(events)) = events
    /\ Emitted = <<"error", "progress">>
    /\ events'[Len(events) + 1].b = thread.ip
    /\ events'[Len(events) + 2].a = thread.processed_ips + 1
    /\ thread'.processed_ips = thread.processed_ips + 1
    /\ thread'.pos = thread.pos + 1
    /\ thread'.pc = "check"

\* The step in which lines 60-61 raise e: the worker, waiting for its
\* answer, emits the error that names e.
Raised(e) ==
    /\ thread.exists
    /\ thread.pc = "await"
    /\ Len(events') > Len(events)
    /\ events'[Len(events) + 1].sig = "error"
    /\ events'[Len(events) + 1].a = "request_failed"
    /\ events'[Len(events) + 1].b = e

\* The step in which a response is received and parsed.
Answered == Len(job'.answers) = Len(job.answers) + 1

\* C15: the step in which requests.get raises for want of a connection emits
\* one error notice and ends run() with no lookup added and the aggregate
\* as it was; once run() has returned no lookup is issued in that job; and
\* the slot that shows the error leaves the aggregate as it was.
TransportFailureEndsJob ==
    [][ /\ Raised(<<"ConnectionError">>) =>
              /\ SubSeq(events', 1, Len(events)) = events
              /\ Emitted = <<"error", "finished">>
              /\ thread'.pc = "done"
              /\ job'.lookups = job.lookups
              /\ current_results' = current_results
        /\ (thread.exists /\ thread.pc = "done") =>
              (job'.lookups = job.lookups \/ job'.lookups = <<>>)
        /\ ( /\ events # <<>>
             /\ events[1].sig = "error"
             /\ events[1].a = "request_failed"
             /\ Len(events') = Len(events) - 1 )
           => current_results' = current_results
      ]_vars

\* run() of a job of two IPs has returned: the first result was merged, the
\* lookup of the second found no connection, the error is on the status bar
\* and the finished notice waits.
TransportFailureEndsJobSeen ==
    /\ status = Status("request_failed", <<"ConnectionError">>)
    /\ thread.pc = "done"
    /\ Signals(events) = <<"finished">>
    /\ Len(job.lookups) = 2
    /\ thread.processed_ips = 1
    /\ Len(current_results.keys) = 1

\* C16: a body that is no JSON, a JSON value that is no object, and an
\* object with no response_code are each handled as a per-IP error.
MalformedBodyIsPerIp ==
    [][ /\ \A e \in {<<"JSONDecodeError">>, <<"AttributeError">>} :
              Raised(e) => PerIpError
        /\ (Answered /\ job'.answers[Len(job'.answers)] = "nocode") => PerIpError
      ]_vars

\* C17: a response that is neither code 0 with data nor code 2 is handled as
\* a per-IP error, and every response is followed by exactly one notice that
\* is a result, a limit or an error.
OneNoticePerResponse ==
    [][ Answered =>
            /\ Cardinality({k \in DOMAIN Emitted :
                               Emitted[k] \in {"result", "limit", "error"}}) = 1
            /\ job'.answers[Len(job'.answers)] \in {"other", "nocode"} => PerIpError
      ]_vars

\* The error of the first IP of a job is on the status bar and the lookup of
\* the second IP is under way.
OneNoticePerResponseSeen ==
    /\ thread.exists
    /\ thread.pc = "await"
    /\ thread.pos = 2
    /\ thread.processed_ips = 1
    /\ job.answers = <<"other">>
    /\ status = Status("ip_error", Strip(thread.ip_addresses[1]))
    /\ events = <<>>
    /\ Len(job.lookups) = 2

\* The worker stands at a blank entry of its queue with the stop flag unset.
AtBlankEntry ==
    /\ thread.exists
    /\ thread.pc = "check"
    /\ ~thread.stop_flag
    /\ thread.pos <= Len(thread.ip_addresses)
    /\ \A k \in DOMAIN thread.ip_addresses[thread.pos] :
           IsSpace(thread.ip_addresses[thread.pos][k])

\* C18: the step of the worker at a blank entry issues no lookup, emits no
\* notice and leaves the processed count; the step in which a response with
\* any code but 2 is received emits exactly one progress update, which
\* carries the processed count raised by one and the length of the queue;
\* and no other step emits a progress update.
ProgressCountsAnswers ==
    [][ /\ (AtBlankEntry /\ thread' # thread) =>
              /\ events' = events
              /\ job'.lookups = job.lookups
              /\ thread'.processed_ips = thread.processed_ips
              /\ thread'.pos = thread.pos + 1
        /\ (Answered /\ job'.answers[Len(job'.answers)] # "limit") =>
              /\ Len(events') = Len(events) + 2
              /\ Emitted[1] \in {"result", "error"}
              /\ Emitted[2] = "progress"
              /\ events'[Len(events') ].a = thread.processed_ips + 1
              /\ events'[Len(events') ].b = Len(thread.ip_addresses)
              /\ thread'.processed_ips = thread.processed_ips + 1
        /\ (\E k \in DOMAIN Emitted : Emitted[k] = "progress") =>
              (Answered /\ job'.answers[Len(job'.answers)] # "limit")
        /\ ~thread.exists => thread'.processed_ips = 0
      ]_vars

\* A job of three entries, the second blank, is over: two lookups, and the
\* last progress update was (2, 3).
ProgressCountsAnswersSeen ==
    /\ Len(thread.ip_addresses) = 3
    /\ Strip(thread.ip_addresses[2]) = <<>>
    /\ Len(job.lookups) = 2
    /\ thread.processed_ips = 2
    /\ progress = <<2, 3>>
    /\ query_enabled

\* A worker is active: run() has not returned, or notices of it wait.
JobActive == thread.exists /\ (thread.pc # "done" \/ events # <<>>)

\* C19: while a worker is active the query button is disabled; the button is
\* disabled by an accepted query only, which finds no worker active, and is
\* enabled again only by the slot of the finished notice; and no step but an
\* accepted query makes or restarts a worker.
OneWorkerAtATime ==
    /\ [](JobActive => ~query_enabled)
    /\ [][
            /\ (query_enabled /\ ~query_enabled') =>
                  /\ ~JobActive
                  /\ thread'.exists /\ thread'.pc = "check" /\ thread'.pos = 1
            /\ (~query_enabled /\ query_enabled') =>
                  /\ events # <<>>
                  /\ events[1].sig = "finished"
                  /\ Len(events') = Len(events) - 1
            /\ ( \/ thread'.exists # thread.exists
                 \/ thread'.pos < thread.pos
                 \/ thread.pc = "done" /\ thread'.pc # "done" )
               => (query_enabled /\ ~query_enabled')
          ]_vars

\* A second job is under way, the first is over, and since the query was
\* accepted the user has clicked clear.
OneWorkerAtATimeSeen ==
    /\ daily_query_count = 2
    /\ thread.exists
    /\ thread.pc = "await"
    /\ ~query_enabled
    /\ status = Status("cleared", NoIp)

\* The word stands somewhere in the text.
Holds(text, word) ==
    \E i \in 1..Len(text) :
        /\ i + Len(word) - 1 <= Len(text)
        /\ SubSeq(text, i, i + Len(word) - 1) = word

\* C20: a click on the query button with no API key, or with a text that
\* holds no public IP, makes no worker, issues no lookup, and leaves the
\* aggregate, the rows of the table and the daily counter as they were.
RejectedQueryChangesNothing ==
    [][ \A text \in QueryTexts, has_key \in BOOLEAN :
            ( /\ ~has_key \/ \A ip \in QueryIps : ~Holds(text, ip)
              /\ QueryIp(text, has_key) )
            => /\ thread' = thread
               /\ job' = job
               /\ events' = events
               /\ current_results' = current_results
               /\ table' = table
               /\ daily_query_count' = daily_query_count
               /\ query_enabled' = query_enabled
      ]_vars

\* After a job that merged a result, a query with no public IP in the field
\* was rejected: the entry, its row and the counter are as the job left them.
RejectedQueryChangesNothingSeen ==
    /\ status = Status("none_found", NoIp)
    /\ query_enabled
    /\ daily_query_count = 1
    /\ Len(current_results.keys) = 1
    /\ Len(table) = 1
    /\ thread.exists
    /\ thread.pc = "done"

\* The addresses of the queue of the job accepted last, blanks taken away.
BatchIps ==
    {SelectSeq(thread.ip_addresses[k], LAMBDA c : c # " ") :
        k \in DOMAIN thread.ip_addresses}

\* C21: every key of the aggregate is an address of the queue of the query
\* accepted last, and so a public IPv4 address; the click that is accepted
\* finds no notice waiting and leaves the aggregate and the table empty.
AggregateOfLastBatch ==
    /\ [](\A k \in DOMAIN current_results.keys :
              /\ current_results.keys[k] \in BatchIps
              /\ Survives(current_results.keys[k]))
    /\ [][ (query_enabled /\ ~query_enabled')
           => /\ events = <<>>
              /\ events' = <<>>
              /\ current_results' = EmptyResults
              /\ table' = <<>>
       ]_vars

\* The second job of the day, over one address, is over and the aggregate
\* holds that address alone.
AggregateOfLastBatchSeen ==
    /\ daily_query_count = 2
    /\ query_enabled
    /\ events = <<>>
    /\ thread.ip_addresses = <<IpB>>
    /\ current_results.keys = <<IpB>>

\* The entries of the queue that are not blank, stripped, in queue order.
NonBlankEntries ==
    SelectSeq([k \in DOMAIN thread.ip_addresses |->
                  SelectSeq(thread.ip_addresses[k], LAMBDA c : ~IsSpace(c))],
              LAMBDA entry : entry # <<>>)

\* C22: the lookups of a job are, in order, the first non-blank entries of
\* its queue, one lookup an entry at most, so none is asked twice and none
\* before an earlier one; a lookup is begun only when every earlier one has
\* been answered, and one lookup at most is under way.
OneLookupPerEntry ==
    /\ []( /\ Len(job.lookups) <= Len(NonBlankEntries)
           /\ job.lookups = SubSeq(NonBlankEntries, 1, Len(job.lookups))
           /\ Len(job.lookups) - Len(job.answers) \in {0, 1}
           /\ thread.pc = "await" => Len(job.lookups) = Len(job.answers) + 1
           /\ thread.pc \in {"check", "request"}
                  => Len(job.lookups) = Len(job.answers) )
    /\ [][ Len(job'.lookups) > Len(job.lookups)
           => /\ Len(job'.lookups) = Len(job.lookups) + 1
              /\ Len(job.lookups) = Len(job.answers)
              /\ thread.pc # "await"
       ]_vars

\* The first entry was answered with an error and the blank entry after it
\* was skipped: the second lookup is the last entry's.
OneLookupPerEntrySeen ==
    /\ Len(thread.ip_addresses) = 3
    /\ job.lookups = <<IpA, IpB>>
    /\ job.answers = <<"other">>
    /\ thread.pc = "await"

\* The finished notice of the job is the one being handled in this step.
FinishedHandled ==
    /\ events # <<>>
    /\ Head(events).sig = "finished"
    /\ events' = Tail(events)

\* C23: with every lookup returning, a job that was started comes to its end,
\* its run returns and its finished notice is handled, after no more lookups
\* than its queue has entries; the step that handles the finished notice
\* leaves the query button enabled and the stop button disabled.
JobFinishes ==
    /\ [](Len(job.lookups) <= Len(thread.ip_addresses))
    /\ (thread.exists /\ thread.pc # "done") ~> (thread.pc = "done")
    /\ (~query_enabled) ~> (query_enabled /\ ~stop_enabled /\ events = <<>>)
    /\ [][ FinishedHandled => query_enabled' /\ ~stop_enabled' /\ events' = <<>> ]_vars

\* A job over two entries is over after two lookups, the second of which
\* raised; every notice has been handled and the buttons are back.
JobFinishesSeen ==
    /\ thread.exists
    /\ thread.pc = "done"
    /\ Len(thread.ip_addresses) = 2
    /\ Len(job.lookups) = 2
    /\ Len(job.answers) = 1
    /\ events = <<>>
    /\ query_enabled
    /\ ~stop_enabled

\* The entries on display are the five first of the names, or all of them if
\* they are fewer, each with the number of its occurrences, where a name
\* comes before another if it occurs more often or as often and was seen
\* first; names[k] are the names row k of the scan added.
TopFive(shown, names) ==
    LET all == {names[i] : i \in DOMAIN names}
        Count(n) == Cardinality({i \in DOMAIN names : names[i] = n})
        Before(m, n) ==
            \/ Count(m) > Count(n)
            \/ Count(m) = Count(n) /\ FirstIndex(names, m) < FirstIndex(names, n)
    IN  /\ Len(shown) = IF Cardinality(all) < 5 THEN Cardinality(all) ELSE 5
        /\ \A k \in DOMAIN shown :
               /\ shown[k][1] \in all
               /\ shown[k][2] = Count(shown[k][1])
        /\ \A i, j \in DOMAIN shown : i < j => Before(shown[i][1], shown[j][1])
        /\ \A n \in all \ {shown[k][1] : k \in DOMAIN shown} :
               \A k \in DOMAIN shown : Before(shown[k][1], n)

\* The judgment tags of the rows of the table, in the order of the scan.
TagsOfTable == Concat([k \in DOMAIN table |-> JudgmentNames(table[k])])

\* C24: the carrier labels and the judgment labels on display are at most
\* five, in descending order of count, labels of equal count in the order
\* they were first seen in the scan of the rows, and every label left out
\* comes after each label on display in that order.
LabelsAreTopFive ==
    /\ TopFive(labels.judgments, TagsOfTable)
    /\ TopFive(labels.carriers, Concat([k \in DOMAIN table |-> CarrierNames(table[k])]))

\* The rows have six tags between them, one of them twice and five once:
\* five labels are on display, the first with count 2, and the tag seen last
\* of those with count 1 is left out.
LabelsAreTopFiveSeen ==
    /\ Cardinality({TagsOfTable[i] : i \in DOMAIN TagsOfTable}) = 6
    /\ Len(TagsOfTable) = 7
    /\ Len(labels.judgments) = 5
    /\ labels.judgments[1][2] = 2
    /\ labels.judgments[2][2] = 1
    /\ Len(labels.carriers) = 2

\* C25: the table has one row for each key of the aggregate and no other:
\* as many rows as keys, an IP in column 0 of every row, and the IPs of
\* column 0 are the keys.
OneRowPerKey ==
    /\ Len(table) = Len(current_results.keys)
    /\ \A k \in DOMAIN table : table[k].cells[0].has
    /\ {table[k].cells[0].text : k \in DOMAIN table}
           = {current_results.keys[k] : k \in DOMAIN current_results.keys}

\* C26: when every row has its items, each row on display is a malicious row
\* if the box is checked, and matches the facet filter last applied and not
\* reset if there is one; so also for a row add_result has just appended.
VisibleRowsPassFilter ==
    RowsComplete =>
        /\ show_malicious_only => Visible(table) \subseteq MaliciousRows(table)
        /\ facet[1] # "none" => Visible(table) \subseteq FacetRows(table, facet)

\* The count the label of a facet shows.
LabelCount(category, value) ==
    CASE category = "is_malicious" ->
             IF value THEN labels.malicious ELSE labels.safe
      [] category = "confidence" ->
             IF value = HIGH THEN labels.high
             ELSE IF value = MEDIUM THEN labels.medium
             ELSE labels.low
      [] category = "location" ->
             IF value = "anhui" THEN labels.anhui
             ELSE IF value = "china_other" THEN labels.china_other
             ELSE labels.foreign
      [] category = "carrier" ->
             labels.carriers[CHOOSE k \in DOMAIN labels.carriers :
                                 labels.carriers[k][1] = value][2]
      [] category = "judgment" ->
             labels.judgments[CHOOSE k \in DOMAIN labels.judgments :
                                  labels.judgments[k][1] = value][2]

\* Every payload of the aggregate is an object with the fields of a result.
PayloadsWellFormed ==
    \A k \in DOMAIN current_results.keys :
        "is_malicious" \in DOMAIN current_results.data[current_results.keys[k]]

\* C27: with no job running and every payload well formed, a click on a
\* facet label leaves on display as many rows as the label counts.
FilterShowsCount ==
    [][ ( /\ Idle
          /\ PayloadsWellFormed
          /\ AnyFacetClick )
        => Cardinality(Visible(table')) = LabelCount(facet'[1], facet'[2])
      ]_vars

\* The run went through its whole queue and had an entry to look up: no
\* stop flag, no limit signal and no exception ended it, and its notices
\* have all been handled.
RanToEnd ==
    /\ thread.exists
    /\ thread.pc = "done"
    /\ thread.processed_ips > 0
    /\ thread.pos > Len(thread.ip_addresses)
    /\ ~thread.stop_flag
    /\ job.limits = 0
    /\ events = <<>>

ClearKeepsJob ==
    /\ []({current_results.keys[k] : k \in DOMAIN current_results.keys}
              = {job.merged[k][1] : k \in DOMAIN job.merged})
    /\ [][ ClearResults
           => /\ current_results' = EmptyResults
              /\ table' = <<>>
              /\ thread' = thread
              /\ events' = events
              /\ query_enabled' = query_enabled
              /\ stop_enabled' = stop_enabled
       ]_vars

\* A job over two IPs is over; clear was clicked while it ran, after the
\* first result had been merged: the aggregate holds the second IP alone.
ClearKeepsJobSeen ==
    /\ query_enabled
    /\ events = <<>>
    /\ ip_input = <<>>
    /\ thread.ip_addresses = <<IpA, <<" ">> \o IpB>>
    /\ ~thread.stop_flag
    /\ Len(job.lookups) = 2
    /\ progress = <<2, 2>>
    /\ current_results.keys = <<IpB>>
    /\ Len(table) = 1

\* C30: the step that handles the finished notice of a job leaves the status
\* "stopped" if the stop flag of its thread is set and "completed" if not,
\* whatever the status was: an error's, the limit's or any other; and the
\* flag is set if and only if stop was clicked while the run went on.
FinalStatusFollowsFlag ==
    /\ [](thread.stop_flag = job.stopped)
    /\ [][ FinishedHandled
           => status' = IF thread.stop_flag THEN Status("stopped", NoIp)
                        ELSE Status("completed", NoIp)
       ]_vars

\* A job that the limit signal ended, with no stop: its finished notice has
\* been handled and the status reads "completed".
FinalStatusFollowsFlagSeen ==
    /\ thread.exists
    /\ thread.pc = "done"
    /\ ~thread.stop_flag
    /\ job.limits = 1
    /\ events = <<>>
    /\ query_enabled
    /\ status = Status("completed", NoIp)

====
